---- MODULE Spec2Model ----
(***************************************************************************)
(* WorkSuite time tracking: the work-time ledger functions of              *)
(* src/features/worktime/api.ts and the week / year views of the           *)
(* TimeTracking page that use them; computeLeaveStats and saveSettings of   *)
(* the leave pages; the table v2_work_logs under upsertWorkLog and         *)
(* deleteWorkLog; the week query of the Journal page; and the tag link     *)
(* helpers of src/features/tags/api.ts.                                    *)
(*                                                                         *)
(* A JavaScript string is modelled as a sequence of one-character strings  *)
(* ("09:00" is <<"0","9",":","0","0">>), so that split, Number, parseInt,  *)
(* String and padStart are computed character by character.                *)
(***************************************************************************)
EXTENDS Integers, Sequences, FiniteSets

VARIABLES
    call,        \* a call of one of the pure ledger functions
    weekRef,     \* useState weekRef
    loading,     \* useState loading
    rows,        \* useState rows: format(d, 'yyyy-MM-dd') -> RowState
    saveTimers,  \* useRef saveTimers: date -> the row its pending timer will save
    inflight,    \* upsertWorkLog requests sent and not yet answered
    store,       \* table v2_work_logs
    edits,       \* number of handleChange events so far
    yearRef,     \* useState yearRef
    yearLogs,    \* useState yearLogs
    carryOverMinutes,  \* useState carryOverMinutes
    carryStore,  \* table v2_overtime_carry_over of the user: year -> minutes
    clock,       \* the time new Date() returns, in ticks
    tagLinks     \* the rows of a tag link table (v2_action_tags, ...) of one item

\* the state of the year view
yearVars == <<yearRef, yearLogs, carryOverMinutes, carryStore>>

\* the state of the week view
weekVars == <<weekRef, rows, saveTimers, inflight, edits>>

pageVars == <<loading, store, weekVars, yearVars, clock, tagLinks>>

vars == <<call, pageVars>>

\* ------------------------------------------------------------------------
\* Bounds of the model
\* ------------------------------------------------------------------------

\* the times of day fed to computeWorkedMinutes are the minutes of the day
\* that are a multiple of TimeStep, plus the times of ExtraTimes
TimeStep == 131

\* formatMinutes is applied to every integer of -MaxMinutes..MaxMinutes
MaxMinutes == 1300

\* at most MaxEdits input events (handleChange) in one run of the page
MaxEdits == 2

\* the year shown is at most MaxYearNav years before or after today's year
MaxYearNav == 1

\* ------------------------------------------------------------------------
\* JavaScript values
\* ------------------------------------------------------------------------

\* JS null: distinct from every text, texts being sequences of single characters
null == <<"<null>">>

EmptyText == <<>>

DigitChars == <<"0", "1", "2", "3", "4", "5", "6", "7", "8", "9">>

IsDigit(c) == \E i \in 1..10 : DigitChars[i] = c

DigitVal(c) == (CHOOSE i \in 1..10 : DigitChars[i] = c) - 1

Max(a, b) == IF a >= b THEN a ELSE b

\* !s for s a string or null
Falsy(s) == s = null \/ s = EmptyText

\* s || null
OrNull(s) == IF Falsy(s) THEN null ELSE s

\* Math.abs
Abs(n) == IF n < 0 THEN -n ELSE n

\* String(n) for an integer n >= 0: its decimal digits, no padding
RECURSIVE NumToText(_)
NumToText(n) ==
    IF n < 10 THEN <<DigitChars[n + 1]>>
    ELSE NumToText(n \div 10) \o <<DigitChars[(n % 10) + 1]>>

\* String(n) for any integer n
IntToText(n) == IF n < 0 THEN <<"-">> \o NumToText(-n) ELSE NumToText(n)

\* s.slice(0, n)
Slice0(s, n) == SubSeq(s, 1, IF Len(s) < n THEN Len(s) ELSE n)

\* s.padStart(len, ch)
RECURSIVE PadStart(_, _, _)
PadStart(s, len, ch) == IF Len(s) >= len THEN s ELSE PadStart(<<ch>> \o s, len, ch)

\* the value of an <input type="time"> for the minute t of the day: HH:mm
HHmm(t) == PadStart(NumToText(t \div 60), 2, "0") \o <<":">>
           \o PadStart(NumToText(t % 60), 2, "0")

\* Number(s) for a text of decimal digits (Number("") is 0)
RECURSIVE DigitsToNum(_)
DigitsToNum(s) ==
    IF Len(s) = 0 THEN 0
    ELSE 10 * DigitsToNum(SubSeq(s, 1, Len(s) - 1)) + DigitVal(s[Len(s)])

\* s.split(sep): the pieces of s between the occurrences of the character sep
RECURSIVE Split(_, _)
Split(s, sep) ==
    IF \A i \in 1..Len(s) : s[i] # sep THEN <<s>>
    ELSE LET k == CHOOSE i \in 1..Len(s) : s[i] = sep /\ \A j \in 1..(i - 1) : s[j] # sep
         IN  <<SubSeq(s, 1, k - 1)>> \o Split(SubSeq(s, k + 1, Len(s)), sep)

\* length of the longest prefix of s made of digits
RECURSIVE DigitPrefixLen(_)
DigitPrefixLen(s) ==
    IF Len(s) = 0 \/ ~IsDigit(s[1]) THEN 0 ELSE 1 + DigitPrefixLen(Tail(s))

\* parseInt(s) || 0 : an optional sign, then the leading digits; a text with
\* no leading digit parses to NaN, which || turns into 0
ParseIntOrZero(s) ==
    LET neg  == Len(s) > 0 /\ s[1] = "-"
        body == IF Len(s) > 0 /\ s[1] \in {"-", "+"} THEN Tail(s) ELSE s
        n    == DigitPrefixLen(body)
    IN  IF n = 0 THEN 0
        ELSE IF neg THEN -DigitsToNum(SubSeq(body, 1, n))
        ELSE DigitsToNum(SubSeq(body, 1, n))

\* ------------------------------------------------------------------------
\* src/features/worktime/api.ts
\* ------------------------------------------------------------------------

\* mutants of computeWorkedMinutes
computeWorkedMinutes_addsBreak(start, end, breakMin) ==
    IF Falsy(start) \/ Falsy(end) THEN 0
    ELSE LET s == Split(start, ":")
             e == Split(end, ":")
             total == (DigitsToNum(e[1]) * 60 + DigitsToNum(e[2]))
                      - (DigitsToNum(s[1]) * 60 + DigitsToNum(s[2]))
         IN  Max(0, total + breakMin)

computeWorkedMinutes_noClamp(start, end, breakMin) ==
    IF Falsy(start) \/ Falsy(end) THEN 0
    ELSE LET s == Split(start, ":")
             e == Split(end, ":")
             total == (DigitsToNum(e[1]) * 60 + DigitsToNum(e[2]))
                      - (DigitsToNum(s[1]) * 60 + DigitsToNum(s[2]))
         IN  total - breakMin

\* returns early only when both times are absent; an absent time counts as 00:00
computeWorkedMinutes_bothAbsent(start, end, breakMin) ==
    IF Falsy(start) /\ Falsy(end) THEN 0
    ELSE LET s == IF Falsy(start) THEN <<EmptyText, EmptyText>> ELSE Split(start, ":")
             e == IF Falsy(end) THEN <<EmptyText, EmptyText>> ELSE Split(end, ":")
             total == (DigitsToNum(e[1]) * 60 + DigitsToNum(e[2]))
                      - (DigitsToNum(s[1]) * 60 + DigitsToNum(s[2]))
         IN  Max(0, total - breakMin)

\* computeWorkedMinutes(start, end, breakMin)
computeWorkedMinutes(start, end, breakMin) ==
    IF Falsy(start) \/ Falsy(end) THEN 0
    ELSE LET s == Split(start, ":")
             e == Split(end, ":")
             sh == DigitsToNum(s[1])
             sm == DigitsToNum(s[2])
             eh == DigitsToNum(e[1])
             em == DigitsToNum(e[2])
             total == (eh * 60 + em) - (sh * 60 + sm)
         IN  Max(0, total - breakMin)

\* mutant of normMinutes: Friday counted as a full day
normMinutes_fridayFull(isoWeekday) ==
    IF isoWeekday >= 1 /\ isoWeekday <= 5 THEN 540 ELSE 0

\* normMinutes(isoWeekday)
normMinutes(isoWeekday) ==
    IF isoWeekday >= 1 /\ isoWeekday <= 4 THEN 540
    ELSE IF isoWeekday = 5 THEN 240
    ELSE 0

\* mutants of formatMinutes
formatMinutes_noPad(min) ==
    LET sign == IF min < 0 THEN <<"-">> ELSE <<>>
        abs  == Abs(min)
    IN  sign \o NumToText(abs \div 60) \o <<":">> \o NumToText(abs % 60)

formatMinutes_noSign(min) ==
    LET abs == Abs(min)
    IN  NumToText(abs \div 60) \o <<":">> \o PadStart(NumToText(abs % 60), 2, "0")

\* formatMinutes(min)
formatMinutes(min) ==
    LET sign == IF min < 0 THEN <<"-">> ELSE <<>>
        abs  == Abs(min)
        h    == abs \div 60
        m    == abs % 60
    IN  sign \o NumToText(h) \o <<":">> \o PadStart(NumToText(m), 2, "0")

\* ------------------------------------------------------------------------
\* Dates (date-fns, as used by the TimeTracking page).  A Date at local
\* midnight is its day number, counted from Monday 1 January 2018; the text
\* format(d, 'yyyy-MM-dd') is modelled by the triple <<year, month, day>>,
\* which orders and compares as the text does.
\* ------------------------------------------------------------------------

IsLeapYear(y) == (y % 4 = 0 /\ y % 100 # 0) \/ y % 400 = 0

DaysInYear(y) == IF IsLeapYear(y) THEN 366 ELSE 365

DaysInMonth(y, m) ==
    IF m = 2 THEN (IF IsLeapYear(y) THEN 29 ELSE 28)
    ELSE IF m \in {4, 6, 9, 11} THEN 30
    ELSE 31

\* number of leap years among the years 1..y
LeapYearsUpTo(y) == (y \div 4) - (y \div 100) + (y \div 400)

\* day number of 1 January of year y
YearStart(y) == 365 * (y - 2018) + (LeapYearsUpTo(y - 1) - LeapYearsUpTo(2017))

\* getYear(d): the year whose days include d
getYear(d) ==
    LET y == 2018 + (d \div 366)
    IN  IF d >= YearStart(y + 1) THEN y + 1 ELSE y

\* number of days of year y before its month m
RECURSIVE DaysBeforeMonth(_, _)
DaysBeforeMonth(y, m) ==
    IF m = 1 THEN 0 ELSE DaysBeforeMonth(y, m - 1) + DaysInMonth(y, m - 1)

\* the Date of a year, month and day
DateOf(y, m, day) == YearStart(y) + DaysBeforeMonth(y, m) + (day - 1)

\* format(d, 'yyyy-MM-dd')
formatYmd(d) ==
    LET y   == getYear(d)
        doy == d - YearStart(y) + 1
        m   == CHOOSE k \in 1..12 :
                   DaysBeforeMonth(y, k) < doy /\ doy <= DaysBeforeMonth(y, k) + DaysInMonth(y, k)
    IN  <<y, m, doy - DaysBeforeMonth(y, m)>>

\* getISODay(d): 1 = Monday .. 7 = Sunday
getISODay(d) == (d % 7) + 1

\* startOfWeek(d, { weekStartsOn: 1 }) and endOfWeek(d, { weekStartsOn: 1 })
startOfWeek(d) == d - (getISODay(d) - 1)

endOfWeek(d) == startOfWeek(d) + 6

addWeeks(d, n) == d + 7 * n

subWeeks(d, n) == d - 7 * n

startOfYear(d) == YearStart(getYear(d))

endOfYear(d) == YearStart(getYear(d) + 1) - 1

\* addYears(d, n): same month and day n years later, the day capped at the
\* month's length (29 February becomes 28 February)
addYears(d, n) ==
    LET ymd == formatYmd(d)
        y   == ymd[1] + n
        dim == DaysInMonth(y, ymd[2])
    IN  DateOf(y, ymd[2], IF ymd[3] > dim THEN dim ELSE ymd[3])

subYears(d, n) == addYears(d, -n)

\* eachDayOfInterval({ start, end }): the days from start to end, ascending
eachDayOfInterval(start, end) == [i \in 1..(end - start + 1) |-> start + (i - 1)]

\* Thursday of the ISO week of d, which decides the week's ISO year
ISOThursday(d) == startOfWeek(d) + 3

\* format(d, 'RRRR'): the ISO week-numbering year
getISOWeekYear(d) == getYear(ISOThursday(d))

\* mutant of getISOWeek: weeks counted in blocks of seven days from 1 January
getISOWeek_fromJan1(d) == ((d - YearStart(getYear(d))) \div 7) + 1

\* format(d, 'II'): the ISO week number
getISOWeek(d) == ((ISOThursday(d) - YearStart(getISOWeekYear(d))) \div 7) + 1

\* mutant of formatISOYearWeek: the key holds the week number only ('II')
formatISOYearWeek_weekOnly(d) == <<0, getISOWeek(d)>>

\* format(d, 'RRRR-II')
formatISOYearWeek(d) == <<getISOWeekYear(d), getISOWeek(d)>>

\* ------------------------------------------------------------------------
\* Table v2_work_logs and its access functions (src/features/worktime/api.ts)
\* ------------------------------------------------------------------------

\* the signed-in user (useAuth)
user == "u1"

\* a <= b for two 'yyyy-MM-dd' texts
YmdLeq(a, b) ==
    \/ a[1] < b[1]
    \/ a[1] = b[1] /\ a[2] < b[2]
    \/ a[1] = b[1] /\ a[2] = b[2] /\ a[3] <= b[3]

\* .order('log_date'): the logs of a set, ascending by date
RECURSIVE OrderByLogDate(_)
OrderByLogDate(logs) ==
    IF logs = {} THEN <<>>
    ELSE LET first == CHOOSE l \in logs : \A o \in logs : YmdLeq(l.log_date, o.log_date)
         IN  <<first>> \o OrderByLogDate(logs \ {first})

\* getWorkLogs(userId, fromDate, toDate)
getWorkLogs(userId, fromDate, toDate) ==
    OrderByLogDate({l \in store : /\ l.user_id = userId
                                  /\ YmdLeq(fromDate, l.log_date)
                                  /\ YmdLeq(l.log_date, toDate)})

\* the row upsertWorkLog(userId, logDate, input) sends: the key, the four
\* fields of the input and updated_at: new Date().toISOString().  (The
\* columns id and created_at, which the upsert never sends, are left out of
\* the rows.)
UpsertRow(userId, logDate, input) ==
    [user_id |-> userId, log_date |-> logDate,
     start_time |-> input.start_time, end_time |-> input.end_time,
     break_minutes |-> input.break_minutes, notes |-> input.notes,
     updated_at |-> clock]

\* mutant of UpsertedStore: a plain insert, the row in conflict is kept
UpsertedStore_insertOnly(userId, logDate, input) ==
    store \cup {UpsertRow(userId, logDate, input)}

\* mutant of UpsertedStore: on conflict the break minutes are added to the
\* stored ones
UpsertedStore_addsBreak(userId, logDate, input) ==
    LET old == {l \in store : l.user_id = userId /\ l.log_date = logDate}
        kept == IF old = {} THEN 0 ELSE (CHOOSE l \in old : TRUE).break_minutes
    IN  (store \ old)
        \cup {[UpsertRow(userId, logDate, input) EXCEPT !.break_minutes = @ + kept]}

\* the table after upsertWorkLog(userId, logDate, input) is applied: the row
\* in conflict on (user_id, log_date), if any, is replaced
UpsertedStore(userId, logDate, input) ==
    {l \in store : ~(l.user_id = userId /\ l.log_date = logDate)}
    \cup {UpsertRow(userId, logDate, input)}

\* new Date(): the day the page is opened on, Wednesday 4 November 2026
today == DateOf(2026, 11, 4)

\* an empty table v2_overtime_carry_over
NoCarryOver == [y \in {} |-> 0]

\* getOvertimeCarryOver(year): the record of the year, or null
getOvertimeCarryOver(year) ==
    IF year \in DOMAIN carryStore
    THEN [isNull |-> FALSE, minutes |-> carryStore[year]]
    ELSE [isNull |-> TRUE]

\* ------------------------------------------------------------------------
\* TimeTracking page, week view
\* ------------------------------------------------------------------------

\* emptyRow(); the saving / saved indicator flags of RowState are display
\* only and are left out of the rows
emptyRow == [start |-> EmptyText, end |-> EmptyText, breakMin |-> <<"0">>, notes |-> EmptyText]

\* rowFromLog(log)
rowFromLog(log) ==
    [start    |-> IF log.start_time = null THEN EmptyText ELSE Slice0(log.start_time, 5),
     end      |-> IF log.end_time = null THEN EmptyText ELSE Slice0(log.end_time, 5),
     breakMin |-> IntToText(log.break_minutes),
     notes    |-> IF log.notes = null THEN EmptyText ELSE log.notes]

NoRows == [k \in {} |-> emptyRow]

\* m with key k set to v
Put(m, k, v) == [x \in (DOMAIN m) \cup {k} |-> IF x = k THEN v ELSE m[x]]

\* m without key k
Without(m, k) == [x \in (DOMAIN m) \ {k} |-> m[x]]

\* rows[dateStr] ?? emptyRow()
RowOrEmpty(dateStr) == IF dateStr \in DOMAIN rows THEN rows[dateStr] ELSE emptyRow

weekStart == startOfWeek(weekRef)

weekEnd == endOfWeek(weekRef)

\* the days of the week shown, Monday to Friday
weekDays == SelectSeq(eachDayOfInterval(weekStart, weekEnd), LAMBDA d : getISODay(d) <= 5)

\* workedForDate(dateStr)
workedForDate(dateStr) ==
    IF dateStr \notin DOMAIN rows THEN 0
    ELSE LET r == rows[dateStr]
         IN  computeWorkedMinutes(OrNull(r.start), OrNull(r.end), ParseIntOrZero(r.breakMin))

\* a number | null result
NullDelta == [isNull |-> TRUE]

Delta(n) == [isNull |-> FALSE, value |-> n]

\* mutant of deltaForDate: a row with one time missing is reported as unknown
deltaForDate_eitherMissing(dateStr, isoDay) ==
    IF dateStr \notin DOMAIN rows \/ Falsy(rows[dateStr].start) \/ Falsy(rows[dateStr].end)
    THEN NullDelta
    ELSE LET r == rows[dateStr]
         IN  Delta(computeWorkedMinutes(OrNull(r.start), OrNull(r.end), ParseIntOrZero(r.breakMin))
                   - normMinutes(isoDay))

\* deltaForDate(dateStr, isoDay)
deltaForDate(dateStr, isoDay) ==
    IF dateStr \notin DOMAIN rows \/ (Falsy(rows[dateStr].start) /\ Falsy(rows[dateStr].end))
    THEN NullDelta
    ELSE LET r == rows[dateStr]
             worked == computeWorkedMinutes(OrNull(r.start), OrNull(r.end),
                                            ParseIntOrZero(r.breakMin))
         IN  Delta(worked - normMinutes(isoDay))

\* xs.reduce((s, x) => s + x, 0)
RECURSIVE Sum(_)
Sum(xs) == IF Len(xs) = 0 THEN 0 ELSE Head(xs) + Sum(Tail(xs))

\* xs.reduce((s, x) => s + f(x), 0)
SumOver(xs, f(_)) == Sum([i \in 1..Len(xs) |-> f(xs[i])])

weekWorked == SumOver(weekDays, LAMBDA d : workedForDate(formatYmd(d)))

\* mutant of weekNorm: only the days that have a row count their norm
weekNorm_entriesOnly ==
    SumOver(weekDays, LAMBDA d : IF formatYmd(d) \in DOMAIN rows THEN normMinutes(getISODay(d)) ELSE 0)

weekNorm == SumOver(weekDays, LAMBDA d : normMinutes(getISODay(d)))

weekDelta == weekWorked - weekNorm

weekHasEntries ==
    \E i \in 1..Len(weekDays) :
        LET ds == formatYmd(weekDays[i])
        IN  ds \in DOMAIN rows /\ (~Falsy(rows[ds].start) \/ ~Falsy(rows[ds].end))

\* the cell text of "no data", an em dash (U+2014)
Dash == <<"dash">>

\* the week totals row: total worked and week delta, as text
weekWorkedCell == IF weekHasEntries THEN formatMinutes(weekWorked) ELSE Dash

weekDeltaCell ==
    IF weekHasEntries
    THEN (IF weekDelta > 0 THEN <<"+">> ELSE <<>>) \o formatMinutes(weekDelta)
    ELSE Dash

\* what the user can type into the fields of a row
StartInputs == {EmptyText, HHmm(540)}

EndInputs == {EmptyText, HHmm(1080), HHmm(480)}

BreakInputs == {<<"3", "0">>, <<"-", "1", "2", "0">>}

NotesInputs == {<<"x">>}

\* the rows the user types into: Monday's and Friday's
EditedIsoDays == {1, 5}

FieldInputs ==
    ({"start"} \X StartInputs) \cup ({"end"} \X EndInputs)
    \cup ({"breakMin"} \X BreakInputs) \cup ({"notes"} \X NotesInputs)

\* useEffect -> loadWeek() when the page is opened, the fetch succeeding.
\* (The week navigation buttons are not modelled: the page stays on the week
\* of today, so loadWeek runs once.)
LoadWeekOk ==
    /\ loading
    /\ LET logs == getWorkLogs(user, formatYmd(weekStart), formatYmd(weekEnd))
       IN  rows' = [k \in {logs[i].log_date : i \in 1..Len(logs)} |->
                       rowFromLog(CHOOSE l \in {logs[i] : i \in 1..Len(logs)} : l.log_date = k)]
    /\ loading' = FALSE
    /\ UNCHANGED <<call, clock, tagLinks, yearVars, weekRef, saveTimers, inflight, store, edits>>

\* useEffect -> loadWeek(), the fetch failing: the error is logged
LoadWeekFail ==
    /\ loading
    /\ loading' = FALSE
    /\ UNCHANGED <<call, clock, tagLinks, yearVars, weekRef, rows, saveTimers, inflight, store, edits>>

\* mutant of HandleChange: a timer pending for the date is left to run, with
\* the row it was started with
HandleChange_keepsPendingTimer ==
    /\ ~loading
    /\ edits < MaxEdits
    /\ \E i \in {k \in 1..Len(weekDays) : getISODay(weekDays[k]) \in EditedIsoDays},
          fv \in FieldInputs :
        LET dateStr == formatYmd(weekDays[i])
            updated == [RowOrEmpty(dateStr) EXCEPT ![fv[1]] = fv[2]]
        IN  /\ rows' = Put(rows, dateStr, updated)
            /\ saveTimers' = IF dateStr \in DOMAIN saveTimers THEN saveTimers
                             ELSE Put(saveTimers, dateStr, updated)
    /\ edits' = edits + 1
    /\ UNCHANGED <<call, clock, tagLinks, yearVars, weekRef, loading, inflight, store>>

\* handleChange(dateStr, field, value), which ends with scheduleAutosave:
\* the pending timer of the date, if any, is replaced by a new one
HandleChange ==
    /\ ~loading
    /\ edits < MaxEdits
    /\ \E i \in {k \in 1..Len(weekDays) : getISODay(weekDays[k]) \in EditedIsoDays},
          fv \in FieldInputs :
        LET dateStr == formatYmd(weekDays[i])
            updated == [RowOrEmpty(dateStr) EXCEPT ![fv[1]] = fv[2]]
        IN  /\ rows' = Put(rows, dateStr, updated)
            /\ saveTimers' = Put(saveTimers, dateStr, updated)
    /\ edits' = edits + 1
    /\ UNCHANGED <<call, clock, tagLinks, yearVars, weekRef, loading, inflight, store>>

\* the input of the upsert doSaveRow sends for row r
UpsertInput(r) ==
    [start_time    |-> OrNull(r.start),
     end_time      |-> OrNull(r.end),
     break_minutes |-> ParseIntOrZero(r.breakMin),
     notes         |-> OrNull(r.notes)]

\* mutant of TimerFires: a row without times is saved too
TimerFires_savesEmptyRow ==
    \E dateStr \in DOMAIN saveTimers :
        LET r == saveTimers[dateStr]
        IN  /\ saveTimers' = Without(saveTimers, dateStr)
            /\ rows' = Put(rows, dateStr, RowOrEmpty(dateStr))
            /\ inflight' = Append(inflight, [log_date |-> dateStr, input |-> UpsertInput(r)])
            /\ UNCHANGED <<call, clock, tagLinks, yearVars, weekRef, loading, store, edits>>

\* mutant of TimerFires: a request of the date still in flight is cancelled
TimerFires_cancelsInflight ==
    \E dateStr \in DOMAIN saveTimers :
        LET r == saveTimers[dateStr]
            others == SelectSeq(inflight, LAMBDA q : q.log_date # dateStr)
        IN  /\ saveTimers' = Without(saveTimers, dateStr)
            /\ IF Falsy(r.start) /\ Falsy(r.end)
               THEN UNCHANGED <<rows, inflight>>
               ELSE /\ rows' = Put(rows, dateStr, RowOrEmpty(dateStr))
                    /\ inflight' = Append(others, [log_date |-> dateStr, input |-> UpsertInput(r)])
            /\ UNCHANGED <<call, clock, tagLinks, yearVars, weekRef, loading, store, edits>>

\* a timer of saveTimers fires: doSaveRow(dateStr, r) up to its await
TimerFires ==
    \E dateStr \in DOMAIN saveTimers :
        LET r == saveTimers[dateStr]
        IN  /\ saveTimers' = Without(saveTimers, dateStr)
            /\ IF Falsy(r.start) /\ Falsy(r.end)
               THEN UNCHANGED <<rows, inflight>>
               ELSE /\ rows' = Put(rows, dateStr, RowOrEmpty(dateStr))
                    /\ inflight' = Append(inflight, [log_date |-> dateStr, input |-> UpsertInput(r)])
            /\ UNCHANGED <<call, clock, tagLinks, yearVars, weekRef, loading, store, edits>>

\* s without its i-th element
RemoveAt(s, i) == SubSeq(s, 1, i - 1) \o SubSeq(s, i + 1, Len(s))

\* an upsertWorkLog request is applied by the store and doSaveRow resumes
UpsertApplied ==
    \E i \in 1..Len(inflight) :
        LET req == inflight[i]
        IN  /\ store' = UpsertedStore(user, req.log_date, req.input)
            /\ inflight' = RemoveAt(inflight, i)
            /\ rows' = Put(rows, req.log_date, RowOrEmpty(req.log_date))
            /\ UNCHANGED <<call, clock, tagLinks, yearVars, weekRef, loading, saveTimers, edits>>

\* an upsertWorkLog request fails: doSaveRow's catch
UpsertFailed ==
    \E i \in 1..Len(inflight) :
        LET req == inflight[i]
        IN  /\ inflight' = RemoveAt(inflight, i)
            /\ rows' = Put(rows, req.log_date, RowOrEmpty(req.log_date))
            /\ UNCHANGED <<call, clock, tagLinks, yearVars, weekRef, loading, saveTimers, store, edits>>


\* a text of the form HH:mm:ss, as the table returns a time column
HHmmss(t) == HHmm(t) \o <<":", "0", "0">>

\* the table when the page is opened: empty, or holding logs of the week of
\* today saved earlier (Monday 09:00-17:00 with a break of 30 minutes,
\* Wednesday 08:00-17:30 with a break of 30 minutes and a note)
SavedLogs ==
    {[user_id |-> user, log_date |-> <<2026, 11, 2>>, start_time |-> HHmmss(540),
      end_time |-> HHmmss(1020), break_minutes |-> 30, notes |-> null, updated_at |-> 0],
     [user_id |-> user, log_date |-> <<2026, 11, 4>>, start_time |-> HHmmss(480),
      end_time |-> HHmmss(1050), break_minutes |-> 30, notes |-> <<"x">>, updated_at |-> 0]}

WeekInitStores == {{}, SavedLogs}

NoCall == [fn |-> "none", args |-> <<>>, done |-> TRUE, ret |-> 0]

Init ==
    /\ call = NoCall
    /\ weekRef = today
    /\ loading = TRUE
    /\ rows = NoRows
    /\ saveTimers = NoRows
    /\ inflight = <<>>
    /\ store \in WeekInitStores
    /\ edits = 0
    /\ yearRef = today
    /\ yearLogs = <<>>
    /\ carryOverMinutes = 0
    /\ carryStore = NoCarryOver
    /\ clock = 0
    /\ tagLinks = {}

Next ==
    \/ LoadWeekOk \/ LoadWeekFail
    \/ HandleChange
    \/ TimerFires
    \/ UpsertApplied \/ UpsertFailed

Spec == Init /\ [][Next]_vars

\* ------------------------------------------------------------------------
\* TimeTracking page, year view
\* ------------------------------------------------------------------------

\* logMap[ds]: yearLogs.forEach(l => { logMap[l.log_date] = l }), a later
\* log of the same date replacing an earlier one
HasLog(ds) == \E i \in 1..Len(yearLogs) : yearLogs[i].log_date = ds

LogOf(ds) ==
    yearLogs[CHOOSE i \in 1..Len(yearLogs) :
                 /\ yearLogs[i].log_date = ds
                 /\ \A j \in (i + 1)..Len(yearLogs) : yearLogs[j].log_date # ds]

\* the working days Monday to Friday of the year of ref
allDaysOf(ref) ==
    SelectSeq(eachDayOfInterval(startOfYear(ref), endOfYear(ref)), LAMBDA d : getISODay(d) <= 5)

\* allDays.forEach: a day joins the bucket of its key format(d, 'RRRR-II'),
\* a key not seen before opens a new bucket at the end of weeks, labelled
\* format(d, 'II') of that day.  Computed bucket by bucket: the first day
\* not yet placed opens the next bucket, which receives every later day of
\* the same key, in order.  Here the buckets hold the days only.
RECURSIVE GroupByISOWeek(_)
GroupByISOWeek(days) ==
    IF Len(days) = 0 THEN <<>>
    ELSE LET d    == Head(days)
             wk   == formatISOYearWeek(d)
             same == SelectSeq(days, LAMBDA x : formatISOYearWeek(x) = wk)
             rest == SelectSeq(days, LAMBDA x : formatISOYearWeek(x) # wk)
         IN  <<[key     |-> wk,
                weekNum |-> PadStart(NumToText(getISOWeek(d)), 2, "0"),
                days    |-> same]>> \o GroupByISOWeek(rest)

\* the years the year view can show
YearsShown == {y \in 2018..2040 : y - getYear(today) <= MaxYearNav
                                  /\ getYear(today) - y <= MaxYearNav}

\* a day with its texts ds = format(d, 'yyyy-MM-dd') and its getISODay(d)
RECURSIVE DaysWithTexts(_)
DaysWithTexts(days) ==
    IF Len(days) = 0 THEN <<>>
    ELSE <<[d |-> Head(days), ds |-> formatYmd(Head(days)), isoDay |-> getISODay(Head(days))]>>
         \o DaysWithTexts(Tail(days))

RECURSIVE WeeksWithTexts(_)
WeeksWithTexts(weeks) ==
    IF Len(weeks) = 0 THEN <<>>
    ELSE <<[key |-> Head(weeks).key, weekNum |-> Head(weeks).weekNum,
            days |-> DaysWithTexts(Head(weeks).days)]>>
         \o WeeksWithTexts(Tail(weeks))

\* the buckets of every year that can be shown (they depend on the year only)
WeeksOfYear == [y \in YearsShown |-> WeeksWithTexts(GroupByISOWeek(allDaysOf(YearStart(y))))]

\* mutant of WeekTotals: every bucket is given the norm of a full week
WeekTotals_fullWeekNorm(w) ==
    LET totalWorked == Sum([i \in 1..Len(w.days) |-> w.days[i].worked])
        totalNorm   == 540 + 540 + 540 + 540 + 240
        hasEntries  == \E i \in 1..Len(w.days) : w.days[i].worked > 0
        delta       == IF hasEntries THEN Delta(totalWorked - totalNorm) ELSE NullDelta
    IN  [weekNum |-> w.weekNum, days |-> w.days, totalWorked |-> totalWorked,
         totalNorm |-> totalNorm, delta |-> delta, hasEntries |-> hasEntries]

\* weeks.map(w => ...): the totals of one bucket
WeekTotals(w) ==
    LET totalWorked == Sum([i \in 1..Len(w.days) |-> w.days[i].worked])
        totalNorm   == Sum([i \in 1..Len(w.days) |-> w.days[i].norm])
        hasEntries  == \E i \in 1..Len(w.days) : w.days[i].worked > 0
        delta       == IF hasEntries THEN Delta(totalWorked - totalNorm) ELSE NullDelta
    IN  [weekNum |-> w.weekNum, days |-> w.days, totalWorked |-> totalWorked,
         totalNorm |-> totalNorm, delta |-> delta, hasEntries |-> hasEntries]

\* the entry { date, worked, norm } of a day
YearDay(day) ==
    [date   |-> day.ds,
     worked |-> IF HasLog(day.ds)
                THEN computeWorkedMinutes(LogOf(day.ds).start_time, LogOf(day.ds).end_time,
                                          LogOf(day.ds).break_minutes)
                ELSE 0,
     norm   |-> normMinutes(day.isoDay)]

\* the days of a bucket as entries { date, worked, norm }
RECURSIVE YearDays(_)
YearDays(days) ==
    IF Len(days) = 0 THEN <<>> ELSE <<YearDay(Head(days))>> \o YearDays(Tail(days))

\* weeks.map(w => ...)
RECURSIVE MapWeekTotals(_)
MapWeekTotals(weeks) ==
    IF Len(weeks) = 0 THEN <<>>
    ELSE <<WeekTotals([weekNum |-> Head(weeks).weekNum, days |-> YearDays(Head(weeks).days)])>>
         \o MapWeekTotals(Tail(weeks))

yearByWeek == MapWeekTotals(WeeksOfYear[getYear(yearRef)])

\* w.delta ?? 0
DeltaOrZero(delta) == IF delta.isNull THEN 0 ELSE delta.value

\* ws.reduce((s, w) => s + (w.delta ?? 0), 0)
RECURSIVE SumDeltas(_)
SumDeltas(ws) == IF Len(ws) = 0 THEN 0 ELSE DeltaOrZero(Head(ws).delta) + SumDeltas(Tail(ws))

\* yearByWeek.map((_, i) => carryOverMinutes + yearByWeek.slice(0, i + 1).reduce(...))
RECURSIVE MapCumulative(_, _)
MapCumulative(ws, i) ==
    IF i > Len(ws) THEN <<>>
    ELSE <<carryOverMinutes + SumDeltas(SubSeq(ws, 1, i))>> \o MapCumulative(ws, i + 1)

cumulativeByWeek == MapCumulative(yearByWeek, 1)

\* the cells "worked" and "balance" of the week table row of bucket w
yearWorkedCell(w) == IF w.hasEntries THEN formatMinutes(w.totalWorked) ELSE Dash

yearDeltaCell(w) ==
    IF ~w.delta.isNull
    THEN (IF w.delta.value >= 0 THEN <<"+">> ELSE <<>>) \o formatMinutes(w.delta.value)
    ELSE Dash

\* useEffect -> loadYear(), both fetches succeeding
LoadYearOk ==
    /\ loading
    /\ LET year      == getYear(yearRef)
           logs      == getWorkLogs(user, formatYmd(startOfYear(yearRef)),
                                    formatYmd(endOfYear(yearRef)))
           carryOver == getOvertimeCarryOver(year)
       IN  /\ yearLogs' = logs
           /\ carryOverMinutes' = IF carryOver.isNull THEN 0 ELSE carryOver.minutes
    /\ loading' = FALSE
    /\ UNCHANGED <<call, clock, tagLinks, store, weekVars, yearRef, carryStore>>

\* useEffect -> loadYear(), a fetch failing: the error is logged
LoadYearFail ==
    /\ loading
    /\ loading' = FALSE
    /\ UNCHANGED <<call, clock, tagLinks, store, weekVars, yearVars>>

\* the year navigation buttons; the new yearRef re-runs loadYear, which starts
\* with setLoading(true).  The buttons are not rendered while loading.
ShowYear(ref) ==
    /\ ~loading
    /\ getYear(ref) \in YearsShown
    /\ yearRef' = ref
    /\ loading' = TRUE
    /\ UNCHANGED <<call, clock, tagLinks, store, weekVars, yearLogs, carryOverMinutes, carryStore>>

PrevYear == ShowYear(subYears(yearRef, 1))

NextYear == ShowYear(addYears(yearRef, 1))

ThisYear == ShowYear(today)

\* a work log of the table
WorkLog(date, start, end, breakMinutes, notes) ==
    [user_id |-> user, log_date |-> date, start_time |-> start, end_time |-> end,
     break_minutes |-> breakMinutes, notes |-> notes, updated_at |-> 0]

\* the logs the table can hold, per date, when the year view is opened: a
\* full day (540 worked), a day with a start time only, a day of 600 worked
\* minutes; on Thursday 1 January 2026, Monday 2 and Friday 6 November 2026,
\* Wednesday 31 December 2025 and Friday 1 January 2027
FullDay(date) == WorkLog(date, HHmmss(480), HHmmss(1050), 30, null)

StartOnly(date) == WorkLog(date, HHmmss(540), null, 0, null)

LongDay(date) == WorkLog(date, HHmm(480), HHmm(1110), 30, <<"x">>)

YearInitStores ==
    {a \cup b \cup c \cup d \cup e :
        a \in {{}, {StartOnly(<<2026, 1, 1>>)}},
        b \in {{}, {FullDay(<<2026, 11, 2>>)}, {StartOnly(<<2026, 11, 2>>)}},
        c \in {{}, {LongDay(<<2026, 11, 6>>)}},
        d \in {{}, {FullDay(<<2025, 12, 31>>)}},
        e \in {{}, {LongDay(<<2027, 1, 1>>)}}}

\* the carry-over records the table can hold
YearInitCarryOvers == {NoCarryOver, [y \in {2025, 2026} |-> IF y = 2025 THEN -60 ELSE 120]}

InitYear ==
    /\ call = NoCall
    /\ loading = TRUE
    /\ store \in YearInitStores
    /\ weekRef = today
    /\ rows = NoRows
    /\ saveTimers = NoRows
    /\ inflight = <<>>
    /\ edits = 0
    /\ yearRef = today
    /\ yearLogs = <<>>
    /\ carryOverMinutes = 0
    /\ carryStore \in YearInitCarryOvers
    /\ clock = 0
    /\ tagLinks = {}

NextYearView == LoadYearOk \/ LoadYearFail \/ PrevYear \/ NextYear \/ ThisYear

SpecYear == InitYear /\ [][NextYearView]_vars

\* the year view when every fetch of loadYear succeeds
NextYearLoaded == LoadYearOk \/ PrevYear \/ NextYear \/ ThisYear

SpecYearLoaded == InitYear /\ [][NextYearLoaded]_vars

\* ------------------------------------------------------------------------
\* Inputs of the ledger functions
\* ------------------------------------------------------------------------

MinutesOfDay == 0..1439

ExtraTimes == {480, 540, 1020, 1439}

SampleTimes == {t \in MinutesOfDay : t % TimeStep = 0} \cup ExtraTimes

TimeTexts == {HHmm(t) : t \in SampleTimes}

\* break minutes a caller can pass: the page passes parseInt(breakMin) || 0
\* unchecked, the year view passes the stored break_minutes
SampleBreaks == {-600, -120, -1, 0, 1, 30, 60, 480, 1500}

\* ------------------------------------------------------------------------
\* Calls of the pure functions: the initial state holds the arguments of one
\* call, the action of the called function computes its result
\* ------------------------------------------------------------------------

TimeArgs == TimeTexts \cup {null, EmptyText}

CalcCalls ==
    {[fn |-> "computeWorkedMinutes", args |-> <<start, end, breakMin>>, done |-> FALSE, ret |-> 0] :
        start \in TimeArgs, end \in TimeArgs, breakMin \in SampleBreaks}
    \cup {[fn |-> "normMinutes", args |-> <<isoWeekday>>, done |-> FALSE, ret |-> 0] :
        isoWeekday \in 1..7}
    \cup {[fn |-> "formatMinutes", args |-> <<min>>, done |-> FALSE, ret |-> EmptyText] :
        min \in (-MaxMinutes)..MaxMinutes}

CallComputeWorkedMinutes ==
    /\ call.fn = "computeWorkedMinutes" /\ ~call.done
    /\ call' = [call EXCEPT !.done = TRUE,
                            !.ret = computeWorkedMinutes(call.args[1], call.args[2], call.args[3])]
    /\ UNCHANGED pageVars

CallNormMinutes ==
    /\ call.fn = "normMinutes" /\ ~call.done
    /\ call' = [call EXCEPT !.done = TRUE, !.ret = normMinutes(call.args[1])]
    /\ UNCHANGED pageVars

CallFormatMinutes ==
    /\ call.fn = "formatMinutes" /\ ~call.done
    /\ call' = [call EXCEPT !.done = TRUE, !.ret = formatMinutes(call.args[1])]
    /\ UNCHANGED pageVars

\* the page is not opened
InitCalc ==
    /\ call \in CalcCalls
    /\ weekRef = today
    /\ loading = TRUE
    /\ rows = NoRows
    /\ saveTimers = NoRows
    /\ inflight = <<>>
    /\ store = {}
    /\ edits = 0
    /\ yearRef = today
    /\ yearLogs = <<>>
    /\ carryOverMinutes = 0
    /\ carryStore = NoCarryOver
    /\ clock = 0
    /\ tagLinks = {}

NextCalc == CallComputeWorkedMinutes \/ CallNormMinutes \/ CallFormatMinutes

SpecCalc == InitCalc /\ [][NextCalc]_vars

\* ------------------------------------------------------------------------
\* src/features/leave/api.ts: computeLeaveStats
\*
\* A JavaScript number is modelled by the rational it holds, the record
\* [num, den] in lowest terms with den > 0; a record with den = 0 is not a
\* finite number: num = 1 is Infinity, num = -1 is -Infinity, num = 0 is NaN.
\* The hours and days fed to the function are multiples of 1/4 of small
\* size, on which the sums, differences and products of IEEE doubles are
\* exact; a quotient is held as the exact rational the double rounds.
\* ------------------------------------------------------------------------

\* at most MaxEntries leave entries in the list given to computeLeaveStats
MaxEntries == 3

RECURSIVE GCD(_, _)
GCD(a, b) == IF b = 0 THEN a ELSE GCD(b, a % b)

\* the number n / d, for d # 0
Rat(n, d) ==
    LET g == GCD(Abs(n), Abs(d))
    IN  IF d > 0 THEN [num |-> n \div g, den |-> d \div g]
        ELSE [num |-> (-n) \div g, den |-> (-d) \div g]

\* the number of the integer n
Whole(n) == [num |-> n, den |-> 1]

\* a + b, a - b and a * b on finite numbers (computeLeaveStats adds,
\* subtracts and multiplies finite numbers only)
NumAdd(a, b) == Rat(a.num * b.den + b.num * a.den, a.den * b.den)

NumSub(a, b) == Rat(a.num * b.den - b.num * a.den, a.den * b.den)

NumMul(a, b) == Rat(a.num * b.num, a.den * b.den)

\* a / b on finite numbers: a division by zero raises no error, it gives
\* Infinity, -Infinity or (for 0 / 0) NaN
NumDiv(a, b) ==
    IF b.num = 0
    THEN [num |-> IF a.num > 0 THEN 1 ELSE IF a.num < 0 THEN -1 ELSE 0, den |-> 0]
    ELSE Rat(a.num * b.den, a.den * b.num)

\* mutant of SumHours: the entries of one date are merged, the last one counting
RECURSIVE SumHours_lastOfDate(_)
SumHours_lastOfDate(entries) ==
    IF Len(entries) = 0 THEN Whole(0)
    ELSE LET e    == Head(entries)
             rest == Tail(entries)
         IN  IF \E i \in 1..Len(rest) : rest[i].entry_date = e.entry_date
             THEN SumHours_lastOfDate(rest)
             ELSE NumAdd(e.hours, SumHours_lastOfDate(rest))

\* entries.reduce((s, e) => s + (e.hours ?? 0), 0)
RECURSIVE SumHours(_)
SumHours(entries) ==
    IF Len(entries) = 0 THEN Whole(0)
    ELSE NumAdd(SumHours(SubSeq(entries, 1, Len(entries) - 1)), entries[Len(entries)].hours)

\* mutant of LeaveStatsOf: the manual adjustment is left out of the hours
LeaveStatsOf_noManualAdj(hoursPerDay, baseDays, purchasedDays, carryOverHours, manualAdjHours, entries) ==
    LET totalEntitlementDays  == NumAdd(baseDays, purchasedDays)
        totalEntitlementHours == NumAdd(NumMul(totalEntitlementDays, hoursPerDay), carryOverHours)
        takenHours            == SumHours(entries)
        takenDays             == NumDiv(takenHours, hoursPerDay)
        remainingHours        == NumSub(totalEntitlementHours, takenHours)
        remainingDays         == NumDiv(remainingHours, hoursPerDay)
    IN  [totalEntitlementHours |-> totalEntitlementHours,
         takenHours            |-> takenHours,
         remainingHours        |-> remainingHours,
         totalEntitlementDays  |-> totalEntitlementDays,
         takenDays             |-> takenDays,
         remainingDays         |-> remainingDays]

\* mutant of LeaveStatsOf: the days are converted with 8 hours a day
LeaveStatsOf_eightHourDays(hoursPerDay, baseDays, purchasedDays, carryOverHours, manualAdjHours, entries) ==
    LET totalEntitlementDays  == NumAdd(baseDays, purchasedDays)
        totalEntitlementHours ==
            NumAdd(NumAdd(NumMul(totalEntitlementDays, hoursPerDay), carryOverHours),
                   manualAdjHours)
        takenHours            == SumHours(entries)
        takenDays             == NumDiv(takenHours, Whole(8))
        remainingHours        == NumSub(totalEntitlementHours, takenHours)
        remainingDays         == NumDiv(remainingHours, Whole(8))
    IN  [totalEntitlementHours |-> totalEntitlementHours,
         takenHours            |-> takenHours,
         remainingHours        |-> remainingHours,
         totalEntitlementDays  |-> totalEntitlementDays,
         takenDays             |-> takenDays,
         remainingDays         |-> remainingDays]

\* the body of computeLeaveStats after the defaults are applied
LeaveStatsOf(hoursPerDay, baseDays, purchasedDays, carryOverHours, manualAdjHours, entries) ==
    LET totalEntitlementDays  == NumAdd(baseDays, purchasedDays)
        totalEntitlementHours ==
            NumAdd(NumAdd(NumMul(totalEntitlementDays, hoursPerDay), carryOverHours),
                   manualAdjHours)
        takenHours            == SumHours(entries)
        takenDays             == NumDiv(takenHours, hoursPerDay)
        remainingHours        == NumSub(totalEntitlementHours, takenHours)
        remainingDays         == NumDiv(remainingHours, hoursPerDay)
    IN  [totalEntitlementHours |-> totalEntitlementHours,
         takenHours            |-> takenHours,
         remainingHours        |-> remainingHours,
         totalEntitlementDays  |-> totalEntitlementDays,
         takenDays             |-> takenDays,
         remainingDays         |-> remainingDays]

\* balance: V2LeaveBalance | null, the null balance
NoBalance == [isNull |-> TRUE]

\* mutant of computeLeaveStats: without a balance no day is entitled
computeLeaveStats_noDefaultDays(balance, entries) ==
    IF balance.isNull
    THEN LeaveStatsOf(Whole(8), Whole(0), Whole(0), Whole(0), Whole(0), entries)
    ELSE LeaveStatsOf(balance.hours_per_day, balance.base_days, balance.purchased_days,
                      balance.carry_over_hours, balance.manual_adjustment_hours, entries)

\* mutant of computeLeaveStats: hours_per_day || 8, a zero replaced by the default
computeLeaveStats_zeroHoursDefaulted(balance, entries) ==
    IF balance.isNull
    THEN LeaveStatsOf(Whole(8), Whole(25), Whole(0), Whole(0), Whole(0), entries)
    ELSE LeaveStatsOf(IF balance.hours_per_day.num = 0 THEN Whole(8) ELSE balance.hours_per_day,
                      balance.base_days, balance.purchased_days,
                      balance.carry_over_hours, balance.manual_adjustment_hours, entries)

\* computeLeaveStats(balance, entries): balance?.field ?? default
computeLeaveStats(balance, entries) ==
    LET hoursPerDay    == IF balance.isNull THEN Whole(8)  ELSE balance.hours_per_day
        baseDays       == IF balance.isNull THEN Whole(25) ELSE balance.base_days
        purchasedDays  == IF balance.isNull THEN Whole(0)  ELSE balance.purchased_days
        carryOverHours == IF balance.isNull THEN Whole(0)  ELSE balance.carry_over_hours
        manualAdjHours == IF balance.isNull THEN Whole(0)  ELSE balance.manual_adjustment_hours
    IN  LeaveStatsOf(hoursPerDay, baseDays, purchasedDays, carryOverHours, manualAdjHours,
                     entries)

\* the balance records and the entries fed to computeLeaveStats
LeaveBalances ==
    {NoBalance}
    \cup {[isNull |-> FALSE, hours_per_day |-> h, base_days |-> b, purchased_days |-> p,
            carry_over_hours |-> c, manual_adjustment_hours |-> m] :
            h \in {Whole(8), Rat(15, 2), Whole(0)}, b \in {Whole(25), Whole(1)},
            p \in {Whole(0), Whole(5)}, c \in {Whole(0), Whole(4)}, m \in {Whole(0), Whole(-2)}}

LeaveEntries ==
    {[entry_date |-> d, hours |-> h] :
        d \in {<<2026, 7, 1>>, <<2026, 7, 2>>}, h \in {Whole(8), Whole(4), Rat(1, 2)}}

\* the lists of at most n entries
RECURSIVE EntryLists(_)
EntryLists(n) ==
    IF n = 0 THEN {<<>>}
    ELSE EntryLists(n - 1)
         \cup {Append(l, e) : l \in {x \in EntryLists(n - 1) : Len(x) = n - 1}, e \in LeaveEntries}

LeaveCalls ==
    {[fn |-> "computeLeaveStats", args |-> <<balance, entries>>, done |-> FALSE, ret |-> 0] :
        balance \in LeaveBalances, entries \in EntryLists(MaxEntries)}

CallComputeLeaveStats ==
    /\ call.fn = "computeLeaveStats" /\ ~call.done
    /\ call' = [call EXCEPT !.done = TRUE,
                            !.ret = computeLeaveStats(call.args[1], call.args[2])]
    /\ UNCHANGED pageVars

\* the page is not opened
InitLeave ==
    /\ call \in LeaveCalls
    /\ weekRef = today
    /\ loading = TRUE
    /\ rows = NoRows
    /\ saveTimers = NoRows
    /\ inflight = <<>>
    /\ store = {}
    /\ edits = 0
    /\ yearRef = today
    /\ yearLogs = <<>>
    /\ carryOverMinutes = 0
    /\ carryStore = NoCarryOver
    /\ clock = 0
    /\ tagLinks = {}

NextLeave == CallComputeLeaveStats

SpecLeave == InitLeave /\ [][NextLeave]_vars

\* ------------------------------------------------------------------------
\* The table v2_work_logs under upsertWorkLog and deleteWorkLog
\* (src/features/worktime/api.ts), called directly
\* ------------------------------------------------------------------------
MaxClock == 1

\* the (userId, logDate) of the calls: two users, two dates
StoreKeys == {"u1", "u2"} \X {<<2026, 11, 2>>, <<2026, 11, 3>>}

StoreInputs ==
    {[start_time |-> HHmm(540), end_time |-> HHmm(1020), break_minutes |-> 30, notes |-> null],
     [start_time |-> HHmm(480), end_time |-> null, break_minutes |-> 0, notes |-> <<"x">>]}

\* upsertWorkLog(userId, logDate, input), the request succeeding; it returns
\* the row.  again: the call before it was the same call
CallUpsertWorkLog ==
    \E key \in StoreKeys, input \in StoreInputs :
      LET userId == key[1]
          logDate == key[2]
      IN
        /\ store' = UpsertedStore(userId, logDate, input)
        /\ call' = [fn |-> "upsertWorkLog", args |-> <<userId, logDate, input>>,
                    done |-> TRUE, ret |-> UpsertRow(userId, logDate, input),
                    again |-> (call.fn = "upsertWorkLog" /\ call.args = <<userId, logDate, input>>)]
        /\ UNCHANGED <<loading, weekVars, yearVars, clock, tagLinks>>

\* deleteWorkLog(id), the id being that of a row of the table
CallDeleteWorkLog ==
    \E l \in store :
        /\ store' = store \ {l}
        /\ call' = [fn |-> "deleteWorkLog", args |-> <<l>>, done |-> TRUE, ret |-> 0,
                    again |-> FALSE]
        /\ UNCHANGED <<loading, weekVars, yearVars, clock, tagLinks>>

\* time passes: new Date() returns a later instant
Tick ==
    /\ clock < MaxClock
    /\ clock' = clock + 1
    /\ UNCHANGED <<call, loading, store, weekVars, yearVars, tagLinks>>

\* the table is empty and no page is opened
InitStore ==
    /\ call = NoCall
    /\ weekRef = today
    /\ loading = TRUE
    /\ rows = NoRows
    /\ saveTimers = NoRows
    /\ inflight = <<>>
    /\ store = {}
    /\ edits = 0
    /\ yearRef = today
    /\ yearLogs = <<>>
    /\ carryOverMinutes = 0
    /\ carryStore = NoCarryOver
    /\ clock = 0
    /\ tagLinks = {}

NextStore == CallUpsertWorkLog \/ CallDeleteWorkLog \/ Tick

SpecStore == InitStore /\ [][NextStore]_vars

\* ------------------------------------------------------------------------
\* The week query of the Journal page (src/features/journal/api.ts and the
\* Journal page).  A Date is an instant, here in minutes since 00:00 UTC of
\* day 0; the page works with local dates, toISOString with UTC ones.
\* ------------------------------------------------------------------------
JournalSpan == 10

MinutesPerDay == 24 * 60

\* the offsets of local time from UTC in minutes (New York, London,
\* Amsterdam in winter).  Daylight saving is left out: the instants below
\* are computed from 4 January by adding whole days of 24 hours, so their
\* UTC dates depend on the offset in January only.
JournalZones == {-300, 0, 60}

\* new Date(y, m, d): the instant of local midnight of local day d
LocalMidnight(d, zone) == d * MinutesPerDay - zone

\* getDay() of a local day: 0 = Sunday .. 6 = Saturday
getDay(d) == getISODay(d) % 7

\* toISOString().split('T')[0]: the UTC date of an instant
toISODate(instant) == formatYmd(instant \div MinutesPerDay)

\* getJournalEntriesForWeek(userId, weekNumber, year): the bounds startStr
\* and endStr of the query
getJournalEntriesForWeek(weekNumber, year, zone) ==
    LET jan4       == DateOf(year, 1, 4)
        firstWeek  == LocalMidnight(jan4 - ((getDay(jan4) + 6) % 7), zone)  \* startOfYear
        queryStart == firstWeek + (weekNumber - 1) * 7 * MinutesPerDay      \* weekStart
        queryEnd   == queryStart + 6 * MinutesPerDay                        \* weekEnd
    IN  [startStr |-> toISODate(queryStart), endStr |-> toISODate(queryEnd)]

\* the values of currentDate: the days around 1 January of 2025..2028, today
\* and a day of summer
JournalDates ==
    {d \in DateOf(2024, 12, 1)..DateOf(2028, 1, 31) :
        \E y \in 2025..2028 : Abs(d - DateOf(y, 1, 1)) <= JournalSpan}
    \cup {today, DateOf(2026, 7, 1)}

\* Journal.loadWeek with currentDate = args[1] in the time zone args[2]
CallJournalLoadWeek ==
    /\ call.fn = "Journal.loadWeek" /\ ~call.done
    /\ LET currentDate == call.args[1]
           weekNumber  == getISOWeek(currentDate)
           year        == getYear(currentDate)
       IN  call' = [call EXCEPT !.done = TRUE,
                                !.ret = getJournalEntriesForWeek(weekNumber, year, call.args[2])]
    /\ UNCHANGED pageVars

InitJournal ==
    /\ call \in {[fn |-> "Journal.loadWeek", args |-> <<d, zone>>, done |-> FALSE, ret |-> 0] :
                    d \in JournalDates, zone \in JournalZones}
    /\ weekRef = today
    /\ loading = TRUE
    /\ rows = NoRows
    /\ saveTimers = NoRows
    /\ inflight = <<>>
    /\ store = {}
    /\ edits = 0
    /\ yearRef = today
    /\ yearLogs = <<>>
    /\ carryOverMinutes = 0
    /\ carryStore = NoCarryOver
    /\ clock = 0
    /\ tagLinks = {}

NextJournal == CallJournalLoadWeek

SpecJournal == InitJournal /\ [][NextJournal]_vars

\* ------------------------------------------------------------------------
\* saveSettings of the Vacation page (src/pages/Vacation.tsx): the leave
\* balance it hands to upsertLeaveBalance
\* ------------------------------------------------------------------------
NaN == [num |-> 0, den |-> 0]

RECURSIVE Pow10(_)
Pow10(k) == IF k = 0 THEN 1 ELSE 10 * Pow10(k - 1)

\* parseFloat(s) of a text without leading blanks: an optional sign, digits,
\* an optional point and digits; what follows is ignored, and a text with no
\* digit there is NaN.  (Texts with an exponent or spelling Infinity are not
\* among the inputs.)
parseFloat(s) ==
    LET neg   == Len(s) > 0 /\ s[1] = "-"
        body  == IF Len(s) > 0 /\ s[1] \in {"-", "+"} THEN Tail(s) ELSE s
        n     == DigitPrefixLen(body)
        rest  == SubSeq(body, n + 1, Len(body))
        k     == IF Len(rest) > 0 /\ rest[1] = "." THEN DigitPrefixLen(Tail(rest)) ELSE 0
        whole == DigitsToNum(SubSeq(body, 1, n))
        frac  == DigitsToNum(SubSeq(rest, 2, k + 1))
        value == Rat(whole * Pow10(k) + frac, Pow10(k))
    IN  IF n = 0 /\ k = 0 THEN NaN
        ELSE IF neg THEN Rat(-value.num, value.den)
        ELSE value

\* mutant of OrDefault: x ?? dflt, which keeps 0 and NaN
OrDefault_nullish(x, dflt) == x

\* x || dflt for a number x: 0 and NaN are falsy
OrDefault(x, dflt) == IF x.num = 0 THEN Whole(dflt) ELSE x

\* the input saveSettings passes to upsertLeaveBalance
saveSettings(baseDays, purchased, carryHours, manualAdj, hoursPerDay) ==
    [base_days               |-> OrDefault(parseFloat(baseDays), 25),
     purchased_days          |-> OrDefault(parseFloat(purchased), 0),
     carry_over_hours        |-> OrDefault(parseFloat(carryHours), 0),
     manual_adjustment_hours |-> OrDefault(parseFloat(manualAdj), 0),
     hours_per_day           |-> OrDefault(parseFloat(hoursPerDay), 8)]

\* texts of the fields baseDays and hoursPerDay
DayTexts ==
    {<<"0">>, EmptyText, <<"a", "b", "c">>, <<"-", "3">>, <<"7", ".", "5">>,
     <<"0", ".", "0">>, <<"-", "0">>, <<"8">>, <<".", "5">>, <<"2", "5", "d">>}

\* texts of the fields purchased, carryHours and manualAdj
HourTexts == {<<"0">>, EmptyText, <<"-", "3">>, <<"4">>}

CallSaveSettings ==
    /\ call.fn = "saveSettings" /\ ~call.done
    /\ call' = [call EXCEPT !.done = TRUE,
                            !.ret = saveSettings(call.args[1], call.args[2], call.args[3],
                                                 call.args[4], call.args[5])]
    /\ UNCHANGED pageVars

InitSettings ==
    /\ call \in {[fn |-> "saveSettings", args |-> <<b, p, c, m, h>>, done |-> FALSE, ret |-> 0] :
                    b \in DayTexts, p \in HourTexts, c \in HourTexts, m \in HourTexts,
                    h \in DayTexts}
    /\ weekRef = today
    /\ loading = TRUE
    /\ rows = NoRows
    /\ saveTimers = NoRows
    /\ inflight = <<>>
    /\ store = {}
    /\ edits = 0
    /\ yearRef = today
    /\ yearLogs = <<>>
    /\ carryOverMinutes = 0
    /\ carryStore = NoCarryOver
    /\ clock = 0
    /\ tagLinks = {}

NextSettings == CallSaveSettings

SpecSettings == InitSettings /\ [][NextSettings]_vars

\* ------------------------------------------------------------------------
\* setActionTags, setMeetingTags and setKnowledgeTags
\* (src/features/tags/api.ts): the three differ in the table and the key
\* column only.  tagLinks holds the tag ids linked to the item of the call;
\* call.pc is the statement the call is at.
\* ------------------------------------------------------------------------
TagIds == {"t1", "t2", "t3"}

\* await supabase.from(table).delete().eq(key, id): the request removes the
\* links of the item or fails; its result is not looked at
SetTagsDelete ==
    /\ call.pc = "delete"
    /\ \E failed \in BOOLEAN :
           /\ tagLinks' = IF failed THEN tagLinks ELSE {}
           /\ call' = [call EXCEPT !.pc = IF call.args[1] = {} THEN "returned" ELSE "insert",
                                   !.done = call.args[1] = {},
                                   !.deleteFailed = failed]
    /\ UNCHANGED <<loading, store, weekVars, yearVars, clock>>

\* if (tagIds.length > 0) { insert(...); if (error) throw error }: the
\* request adds the links of tagIds or fails
SetTagsInsert ==
    /\ call.pc = "insert"
    /\ \E failed \in BOOLEAN :
           /\ tagLinks' = IF failed THEN tagLinks ELSE tagLinks \cup call.args[1]
           /\ call' = [call EXCEPT !.pc = IF failed THEN "threw" ELSE "returned",
                                   !.done = TRUE]
    /\ UNCHANGED <<loading, store, weekVars, yearVars, clock>>

\* one of the three functions is called with a set of tag ids for an item
\* that has some links
InitTags ==
    /\ call \in {[fn |-> fn, args |-> <<tagIds>>, done |-> FALSE, ret |-> 0,
                  pc |-> "delete", linksBefore |-> links, deleteFailed |-> FALSE] :
                    fn \in {"setActionTags", "setMeetingTags", "setKnowledgeTags"},
                    tagIds \in SUBSET TagIds, links \in SUBSET TagIds}
    /\ tagLinks = call.linksBefore
    /\ weekRef = today
    /\ loading = TRUE
    /\ rows = NoRows
    /\ saveTimers = NoRows
    /\ inflight = <<>>
    /\ store = {}
    /\ edits = 0
    /\ yearRef = today
    /\ yearLogs = <<>>
    /\ carryOverMinutes = 0
    /\ carryStore = NoCarryOver
    /\ clock = 0

NextTags == SetTagsDelete \/ SetTagsInsert

SpecTags == InitTags /\ [][NextTags]_vars

\* ------------------------------------------------------------------------
\* Claims about the pure functions (checked under SpecCalc)
\* ------------------------------------------------------------------------

WorkedCallDone == call.fn = "computeWorkedMinutes" /\ call.done

\* C1: for every present start and end time HH:mm of one day and every
\* breakMinutes, computeWorkedMinutes returns max(0, raw - breakMinutes) with
\* raw = (endHour*60+endMinute) - (startHour*60+startMinute)
C1_WorkedIsSpanMinusBreak ==
    WorkedCallDone =>
        \A s \in SampleTimes, e \in SampleTimes :
            (call.args[1] = HHmm(s) /\ call.args[2] = HHmm(e)) =>
                LET raw == ((e \div 60) * 60 + (e % 60)) - ((s \div 60) * 60 + (s % 60))
                IN  call.ret = Max(0, raw - call.args[3])

\* the spec's example: computeWorkedMinutes("09:00", "17:00", 30) = 450
C1_Witness ==
    /\ WorkedCallDone
    /\ call.args = <<HHmm(540), HHmm(1020), 30>>
    /\ call.ret = 450

\* C2: computeWorkedMinutes returns 0 whenever start or end is absent (null
\* or empty), whatever the other time and breakMinutes are
C2_AbsentTimeGivesZero ==
    (WorkedCallDone /\ (call.args[1] \in {null, EmptyText} \/ call.args[2] \in {null, EmptyText}))
        => call.ret = 0

\* start absent, end present, and a break that would otherwise raise the result
C2_Witness ==
    /\ WorkedCallDone
    /\ call.args = <<null, HHmm(1020), -120>>
    /\ call.ret = 0

\* C3: the result of computeWorkedMinutes is never negative
C3_WorkedNeverNegative == WorkedCallDone => call.ret >= 0

\* a break longer than the span: 09:00 to 17:00 with a break of 1500 minutes
C3_Witness ==
    /\ WorkedCallDone
    /\ call.args = <<HHmm(540), HHmm(1020), 1500>>
    /\ call.ret = 0

\* C19: for every present start and end and every integer breakMinutes,
\* negative ones included, computeWorkedMinutes returns
\* max(0, max(0, raw) - breakMinutes): the raw span is clamped to >= 0
\* before the break is subtracted, and the difference is clamped again
C19_SpanClampedBeforeBreak ==
    WorkedCallDone =>
        \A s \in SampleTimes, e \in SampleTimes :
            (call.args[1] = HHmm(s) /\ call.args[2] = HHmm(e)) =>
                call.ret = Max(0, Max(0, e - s) - call.args[3])

FormatCallDone == call.fn = "formatMinutes" /\ call.done

IsDigitText(s) == \A i \in 1..Len(s) : IsDigit(s[i])

\* C5: formatMinutes(m) is sign + H + ':' + MM, the sign '-' exactly when
\* m < 0, H = floor(|m| / 60) in decimal without padding, MM = |m| mod 60 on
\* exactly two digits
C5_FormatShape ==
    FormatCallDone =>
        LET m        == call.args[1]
            negative == Len(call.ret) > 0 /\ call.ret[1] = "-"
            unsigned == IF negative THEN Tail(call.ret) ELSE call.ret
            parts    == Split(unsigned, ":")
        IN  /\ negative <=> m < 0
            /\ Len(parts) = 2
            /\ Len(parts[1]) >= 1 /\ IsDigitText(parts[1])
            /\ Len(parts[1]) > 1 => parts[1][1] # "0"
            /\ DigitsToNum(parts[1]) = Abs(m) \div 60
            /\ Len(parts[2]) = 2 /\ IsDigitText(parts[2])
            /\ DigitsToNum(parts[2]) = Abs(m) % 60

\* the spec's example -90, formatted as "-1:30"
C5_Witness ==
    /\ FormatCallDone
    /\ call.args[1] = -90
    /\ call.ret = <<"-", "1", ":", "3", "0">>

\* reading a text sign + H:MM back as sign * (60 * H + MM)
Reparse(text) ==
    LET negative == Len(text) > 0 /\ text[1] = "-"
        unsigned == IF negative THEN Tail(text) ELSE text
        parts    == Split(unsigned, ":")
        value    == 60 * DigitsToNum(parts[1]) + DigitsToNum(parts[2])
    IN  IF negative THEN -value ELSE value

\* C6: re-parsing formatMinutes(m) recovers m (so distinct integers never
\* format to the same text)
C6_FormatRoundTrip == FormatCallDone => Reparse(call.ret) = call.args[1]

\* a negative value whose minutes are padded: -65 gives "-1:05"
C6_Witness ==
    /\ FormatCallDone
    /\ call.args[1] = -65
    /\ call.ret = <<"-", "1", ":", "0", "5">>
    /\ Reparse(call.ret) = -65

NormCallDone == call.fn = "normMinutes" /\ call.done

\* C7: normMinutes is 540 for ISO weekdays 1 to 4, 240 for weekday 5 and 0
\* for weekdays 6 and 7
C7_NormTable ==
    NormCallDone =>
        /\ call.args[1] \in 1..4 => call.ret = 540
        /\ call.args[1] = 5 => call.ret = 240
        /\ call.args[1] \in {6, 7} => call.ret = 0

C7_Witness == NormCallDone /\ call.args[1] = 5 /\ call.ret = 240

\* ------------------------------------------------------------------------
\* Claims about computeLeaveStats (checked under SpecLeave).  The expected
\* figures are computed in whole quarters of an hour or of a day.
\* ------------------------------------------------------------------------

LeaveCallDone == call.fn = "computeLeaveStats" /\ call.done

\* x is a finite multiple of 1/4
IsQuarters(x) == x.den \in {1, 2, 4}

\* a finite multiple of 1/4, counted in quarters
Quarters(x) == (x.num * 4) \div x.den

\* the balance of the call, the defaults standing in for an absent record
EffectiveBalance ==
    IF call.args[1].isNull
    THEN [hours_per_day |-> Whole(8), base_days |-> Whole(25), purchased_days |-> Whole(0),
          carry_over_hours |-> Whole(0), manual_adjustment_hours |-> Whole(0)]
    ELSE call.args[1]

\* the hours of the entries of the call, in quarters, summed entry by entry
EntryQuarters == Sum([i \in 1..Len(call.args[2]) |-> Quarters(call.args[2][i].hours)])

\* 16 * (baseDays + purchasedDays) * hoursPerDay + 16 * carryOverHours
\* + 16 * manualAdjustmentHours
EntitlementSixteenths ==
    (Quarters(EffectiveBalance.base_days) + Quarters(EffectiveBalance.purchased_days))
        * Quarters(EffectiveBalance.hours_per_day)
    + 4 * Quarters(EffectiveBalance.carry_over_hours)
    + 4 * Quarters(EffectiveBalance.manual_adjustment_hours)

C16_TakenIsSumOfEntries ==
    LeaveCallDone =>
        /\ IsQuarters(call.ret.takenHours)
        /\ Quarters(call.ret.takenHours) = EntryQuarters
        /\ Len(call.args[2]) = 0 => call.ret.takenHours = Whole(0)

\* three entries on 1 July 2026, of 8, 4 and 8 hours: 20 hours taken
C16_Witness ==
    /\ LeaveCallDone
    /\ call.args[2] = <<[entry_date |-> <<2026, 7, 1>>, hours |-> Whole(8)],
                        [entry_date |-> <<2026, 7, 1>>, hours |-> Whole(4)],
                        [entry_date |-> <<2026, 7, 1>>, hours |-> Whole(8)]>>
    /\ call.ret.takenHours = Whole(20)

\* q is the finite number a / b, for b # 0: q * b = a
IsQuotient(q, a, b) == q.den > 0 /\ q.num * Quarters(b) = Quarters(a) * q.den

\* C17: with hoursPerDay > 0, remainingHours = totalEntitlementHours -
\* takenHours, takenDays = takenHours / hoursPerDay and remainingDays =
\* remainingHours / hoursPerDay, so takenHours + remainingHours =
\* totalEntitlementHours (remainingHours being negative when more is taken
\* than entitled)
C17_RemainingAndDays ==
    (LeaveCallDone /\ EffectiveBalance.hours_per_day.num > 0) =>
        /\ IsQuarters(call.ret.remainingHours)
        /\ 4 * Quarters(call.ret.remainingHours) = EntitlementSixteenths - 4 * EntryQuarters
        /\ Quarters(call.ret.takenHours) + Quarters(call.ret.remainingHours)
              = Quarters(call.ret.totalEntitlementHours)
        /\ IsQuotient(call.ret.takenDays, call.ret.takenHours, EffectiveBalance.hours_per_day)
        /\ IsQuotient(call.ret.remainingDays, call.ret.remainingHours,
                      EffectiveBalance.hours_per_day)

\* more taken than entitled: 1 day of 8 hours with an adjustment of -2
\* (6 hours) and entries of 8 and 4 hours leave -6 hours, -0.75 days
C17_Witness ==
    /\ LeaveCallDone
    /\ call.args[1] = [isNull |-> FALSE, hours_per_day |-> Whole(8), base_days |-> Whole(1),
                        purchased_days |-> Whole(0), carry_over_hours |-> Whole(0),
                        manual_adjustment_hours |-> Whole(-2)]
    /\ call.args[2] = <<[entry_date |-> <<2026, 7, 1>>, hours |-> Whole(8)],
                        [entry_date |-> <<2026, 7, 2>>, hours |-> Whole(4)]>>
    /\ call.ret.remainingHours = Whole(-6)
    /\ call.ret.takenDays = Rat(3, 2)
    /\ call.ret.remainingDays = Rat(-3, 4)

\* C18: without a balance record computeLeaveStats computes with
\* hoursPerDay = 8, baseDays = 25 and the other three terms 0: 25 days and
\* 200 hours entitled, and with no entry 0 hours taken and 200 remaining
C18_DefaultsWithoutBalance ==
    (LeaveCallDone /\ call.args[1].isNull) =>
        /\ call.ret.totalEntitlementDays = Whole(25)
        /\ call.ret.totalEntitlementHours = Whole(200)
        /\ Quarters(call.ret.remainingHours) = 800 - EntryQuarters
        /\ call.ret.takenDays.den > 0
        /\ call.ret.takenDays.num * 32 = EntryQuarters * call.ret.takenDays.den
        /\ Len(call.args[2]) = 0 =>
               call.ret.takenHours = Whole(0) /\ call.ret.remainingHours = Whole(200)

\* no balance record and no entry
C18_Witness ==
    /\ LeaveCallDone
    /\ call.args = <<NoBalance, <<>>>>
    /\ call.ret.totalEntitlementDays = Whole(25)
    /\ call.ret.totalEntitlementHours = Whole(200)
    /\ call.ret.takenHours = Whole(0)
    /\ call.ret.remainingHours = Whole(200)

\* C21: called with a balance whose hours_per_day is 0, computeLeaveStats
\* returns normally without substituting a default: the hour outputs follow
\* the formulas (the entitled days count for 0 hours) and takenDays and
\* remainingDays are the results of a division by zero, not finite numbers
C21_ZeroHoursPerDayUnguarded ==
    (LeaveCallDone /\ ~call.args[1].isNull /\ call.args[1].hours_per_day.num = 0) =>
        /\ Quarters(call.ret.totalEntitlementDays)
              = Quarters(call.args[1].base_days) + Quarters(call.args[1].purchased_days)
        /\ Quarters(call.ret.totalEntitlementHours)
              = Quarters(call.args[1].carry_over_hours)
                + Quarters(call.args[1].manual_adjustment_hours)
        /\ Quarters(call.ret.takenHours) = EntryQuarters
        /\ Quarters(call.ret.remainingHours)
              = Quarters(call.ret.totalEntitlementHours) - EntryQuarters
        /\ call.ret.takenDays.den = 0
        /\ call.ret.remainingDays.den = 0
        /\ call.ret.takenDays.num = (IF EntryQuarters > 0 THEN 1 ELSE 0)

\* hours_per_day 0, carry-over 4 hours and one entry of 8 hours: 4 hours
\* entitled, -4 remaining, takenDays Infinity and remainingDays -Infinity
C21_Witness ==
    /\ LeaveCallDone
    /\ call.args[1] = [isNull |-> FALSE, hours_per_day |-> Whole(0), base_days |-> Whole(25),
                        purchased_days |-> Whole(0), carry_over_hours |-> Whole(4),
                        manual_adjustment_hours |-> Whole(0)]
    /\ call.args[2] = <<[entry_date |-> <<2026, 7, 1>>, hours |-> Whole(8)]>>
    /\ call.ret.totalEntitlementHours = Whole(4)
    /\ call.ret.remainingHours = Whole(-4)
    /\ call.ret.takenDays = [num |-> 1, den |-> 0]
    /\ call.ret.remainingDays = [num |-> -1, den |-> 0]

\* ------------------------------------------------------------------------
\* Claims about the week view (checked under Spec)
\* ------------------------------------------------------------------------

\* the key of the i-th day shown
ShownDate(i) == formatYmd(weekDays[i])

\* the times of day that occur in the rows of the week view
PageTimes == {480, 540, 1020, 1050, 1080}

\* the end time of row r is earlier than its start time
EndBeforeStart(r) ==
    \E s \in PageTimes, e \in PageTimes : e < s /\ r.start = HHmm(s) /\ r.end = HHmm(e)

\* C4: whenever the end time is earlier than the start time the worked time
\* is 0, for every breakMinutes computeWorkedMinutes is called with (stated
\* for the calls workedForDate makes)
C4_EndBeforeStartGivesZero ==
    \A i \in 1..Len(weekDays) :
        (ShownDate(i) \in DOMAIN rows /\ EndBeforeStart(rows[ShownDate(i)]))
            => workedForDate(ShownDate(i)) = 0

\* C8: deltaForDate is null exactly when the date has no row or its row has
\* neither a start nor an end time; otherwise it is the worked minutes minus
\* the norm of the day, so a row with only one of the two times yields
\* minus the norm
C8_DeltaTriState ==
    \A i \in 1..Len(weekDays) :
        LET ds      == ShownDate(i)
            isoDay  == getISODay(weekDays[i])
            delta   == deltaForDate(ds, isoDay)
            noTimes == ds \notin DOMAIN rows
                       \/ (rows[ds].start = EmptyText /\ rows[ds].end = EmptyText)
        IN  /\ delta.isNull <=> noTimes
            /\ ~noTimes =>
                  /\ delta.value
                       = computeWorkedMinutes(OrNull(rows[ds].start), OrNull(rows[ds].end),
                                              ParseIntOrZero(rows[ds].breakMin))
                         - normMinutes(isoDay)
                  /\ (rows[ds].start = EmptyText \/ rows[ds].end = EmptyText)
                        => delta.value = (IF isoDay = 5 THEN -240 ELSE -540)

\* Friday has a start time only (delta -240) while Monday has no row (null)
C8_Witness ==
    LET mon == ShownDate(1)
        fri == ShownDate(5)
    IN  /\ mon \notin DOMAIN rows
        /\ deltaForDate(mon, 1) = NullDelta
        /\ fri \in DOMAIN rows
        /\ rows[fri].start = HHmm(540) /\ rows[fri].end = EmptyText
        /\ deltaForDate(fri, 5) = Delta(-240)

\* the worked minutes of row r
WorkedOfRow(r) ==
    computeWorkedMinutes(OrNull(r.start), OrNull(r.end), ParseIntOrZero(r.breakMin))

\* the sum of WorkedOfRow over the rows of a set of dates
RECURSIVE WorkedOfDates(_)
WorkedOfDates(dates) ==
    IF dates = {} THEN 0
    ELSE LET ds == CHOOSE x \in dates : TRUE
         IN  WorkedOfRow(rows[ds]) + WorkedOfDates(dates \ {ds})

\* C9: the week's norm is the sum of the norm over all five weekdays Monday
\* to Friday (2400 minutes) whether or not a day has an entry, its worked
\* total is the sum over the days that have an entry, and weekDelta is their
\* difference: a week with only Monday logged at 540 minutes has -1860
C9_WeekAggregate ==
    LET shown   == {ShownDate(i) : i \in 1..Len(weekDays)}
        entered == shown \cap DOMAIN rows
    IN  /\ Len(weekDays) = 5
        /\ \A i \in 1..5 : getISODay(weekDays[i]) = i
        /\ weekNorm = 540 + 540 + 540 + 540 + 240
        /\ weekWorked = WorkedOfDates(entered)
        /\ weekDelta = weekWorked - weekNorm
        /\ (entered = {ShownDate(1)} /\ WorkedOfRow(rows[ShownDate(1)]) = 540)
              => weekDelta = -1860

\* only Monday is logged, 09:00 to 18:00 without a break
C9_Witness ==
    /\ DOMAIN rows = {ShownDate(1)}
    /\ rows[ShownDate(1)].start = HHmm(540) /\ rows[ShownDate(1)].end = HHmm(1080)
    /\ weekWorked = 540
    /\ weekDelta = -1860

\* ------------------------------------------------------------------------
\* Claims about the auto-save of the week view (checked under Spec)
\* ------------------------------------------------------------------------
Monday == <<2026, 11, 2>>

\* the four fields of a row
InputOfRow(l) ==
    [start_time |-> l.start_time, end_time |-> l.end_time,
     break_minutes |-> l.break_minutes, notes |-> l.notes]

\* a step in which handleChange runs
EditStep == edits' = edits + 1

\* a step in which the timer of date ds fires
FireStep(ds) == ds \in DOMAIN saveTimers /\ ds \notin DOMAIN saveTimers'

\* a step in which a request in flight completes
CompleteStep == Len(inflight') < Len(inflight)

\* the log of the user of date ds in the table
StoredLogs(ds) == {l \in store : l.user_id = user /\ l.log_date = ds}

\* C24: an edit to a date replaces the pending timer of that date by a new
\* one carrying the row as of that edit and issues no upsert, the timers of
\* the other dates staying as they are; a timer that fires issues at most
\* one upsert, carrying the row the timer was started with.  So a burst of
\* edits to one date, each before the timer fires, gives at most one upsert,
\* with the row as of the last edit.
C24_DebouncePerDate ==
    [][/\ EditStep =>
              /\ inflight' = inflight
              /\ \E ds \in DOMAIN saveTimers' :
                     /\ saveTimers'[ds] = rows'[ds]
                     /\ \A o \in DOMAIN rows' \ {ds} : o \in DOMAIN rows /\ rows'[o] = rows[o]
                     /\ DOMAIN saveTimers' = DOMAIN saveTimers \cup {ds}
                     /\ \A o \in DOMAIN saveTimers \ {ds} : saveTimers'[o] = saveTimers[o]
       /\ \A ds \in DOMAIN saveTimers :
              FireStep(ds) =>
                  /\ saveTimers[ds] = RowOrEmpty(ds)
                  /\ \/ inflight' = inflight
                     \/ inflight' = Append(inflight, [log_date |-> ds,
                                                      input |-> UpsertInput(saveTimers[ds])])
                  /\ \A o \in DOMAIN saveTimers \ {ds} :
                         o \in DOMAIN saveTimers' /\ saveTimers'[o] = saveTimers[o]]_vars

\* after a burst of two edits to Monday (end 18:00, then break -120) one
\* upsert is in flight and it carries both edits; Monday's stored log is
\* still the one the page loaded
C24_Witness ==
    /\ edits = 2 /\ store = SavedLogs
    /\ saveTimers = NoRows
    /\ Len(inflight) = 1
    /\ inflight[1].log_date = Monday
    /\ inflight[1].input.end_time = HHmm(1080)
    /\ inflight[1].input.break_minutes = -120

\* C26: a timer that fires for a row whose start and end are both empty
\* issues no request and leaves the table as it is, and no request in flight
\* is for a row without times; so the stored log of a date whose times the
\* user cleared keeps the values it had.
C26_NoSaveOfEmptyRow ==
    [][/\ \A ds \in DOMAIN saveTimers :
              (FireStep(ds) /\ Falsy(saveTimers[ds].start) /\ Falsy(saveTimers[ds].end))
                  => (inflight' = inflight /\ store' = store)
       /\ \A i \in 1..Len(inflight') :
              ~(inflight'[i].input.start_time = null /\ inflight'[i].input.end_time = null)]_vars

\* the user cleared both times of Monday, the timer fired and nothing is
\* pending: Monday's stored log is still 09:00-17:00 with a break of 30
C26_Witness ==
    /\ Monday \in DOMAIN rows
    /\ rows[Monday].start = EmptyText /\ rows[Monday].end = EmptyText
    /\ saveTimers = NoRows /\ inflight = <<>>
    /\ \E l \in StoredLogs(Monday) :
           /\ l.start_time = HHmmss(540) /\ l.end_time = HHmmss(1020)
           /\ l.break_minutes = 30 /\ l.notes = null

\* C27: a timer that fires for a row with a time adds its request to those
\* in flight, the earlier ones (of the same date too) staying in flight; an
\* edit cancels none of them; and when a request completes with the table
\* changed, the stored row of its date carries the fields of that request,
\* whichever of the requests in flight it is.
C27_InFlightNotCancelled ==
    [][/\ \A ds \in DOMAIN saveTimers :
              (FireStep(ds) /\ ~(Falsy(saveTimers[ds].start) /\ Falsy(saveTimers[ds].end)))
                  => inflight' = Append(inflight, [log_date |-> ds,
                                                   input |-> UpsertInput(saveTimers[ds])])
       /\ EditStep => inflight' = inflight
       /\ (CompleteStep /\ store' # store) =>
              \E i \in 1..Len(inflight) :
                  /\ inflight' = RemoveAt(inflight, i)
                  /\ \E l \in store' :
                         /\ l.user_id = user /\ l.log_date = inflight[i].log_date
                         /\ InputOfRow(l) = inflight[i].input
                         /\ store' \ {l} = {o \in store : o.log_date # l.log_date}]_vars

\* the request of the second edit to Monday was applied while that of the
\* first is still in flight: applying it next leaves the older row stored
C27_Witness ==
    /\ Len(inflight) = 1 /\ saveTimers = NoRows
    /\ inflight[1].log_date = Monday
    /\ inflight[1].input # UpsertInput(RowOrEmpty(Monday))
    /\ \E l \in StoredLogs(Monday) : InputOfRow(l) = UpsertInput(RowOrEmpty(Monday))

\* ------------------------------------------------------------------------
\* Claims about the year view (checked under SpecYear)
\* ------------------------------------------------------------------------

\* a day of bucket w has a log with a start time or an end time
HasTimedLog(w) ==
    \E i \in 1..Len(w.days) :
        /\ HasLog(w.days[i].date)
        /\ (LogOf(w.days[i].date).start_time # null \/ LogOf(w.days[i].date).end_time # null)

\* a day of the week shown has a row with a start time or an end time
HasTimedRow ==
    \E i \in 1..Len(weekDays) :
        /\ ShownDate(i) \in DOMAIN rows
        /\ (rows[ShownDate(i)].start # EmptyText \/ rows[ShownDate(i)].end # EmptyText)

\* C10, week view: the totals row shows "no data" exactly when no day of the
\* week has a start or an end time
WeekTotalsNoData ==
    /\ HasTimedRow => (weekWorkedCell # Dash /\ weekDeltaCell # Dash)
    /\ ~HasTimedRow => (weekWorkedCell = Dash /\ weekDeltaCell = Dash)

\* C10, year view: each week row shows "no data" exactly when no day of its
\* week has a start or an end time
YearRowsNoData ==
    LET weeks == yearByWeek
    IN  \A k \in 1..Len(weeks) :
            LET w == weeks[k]
            IN  /\ HasTimedLog(w) => (yearWorkedCell(w) # Dash /\ yearDeltaCell(w) # Dash)
                /\ ~HasTimedLog(w) => (yearWorkedCell(w) = Dash /\ yearDeltaCell(w) = Dash)

\* C10: a week in which no day has a start or end time reports its total
\* worked and its delta as "no data", and a week in which at least one day
\* has a start or end time reports numbers, in the week view and in every
\* week row of the year view
C10_NoDataIffNoTimes == WeekTotalsNoData /\ YearRowsNoData

\* C11: in the yearly aggregate a week bucket is has-entries exactly when at
\* least one of its days has a log with a start time or an end time, also
\* when the worked minutes computed from that log are 0
C11_HasEntriesIffTimedLog ==
    LET weeks == yearByWeek
    IN  \A k \in 1..Len(weeks) : weeks[k].hasEntries <=> HasTimedLog(weeks[k])

\* the carry-over minutes stored for the year shown, 0 when there is no record
StoredCarryOver ==
    IF getYear(yearRef) \in DOMAIN carryStore THEN carryStore[getYear(yearRef)] ELSE 0

\* d[j] of the spec: 0 for a week none of whose days has a start or end
\* time, totalWorked - totalNorm of the week otherwise
LedgerDelta(w) == IF HasTimedLog(w) THEN w.totalWorked - w.totalNorm ELSE 0

\* c + d[1] + ... + d[i] for every i, as a sequence
RECURSIVE RunningBalance(_, _)
RunningBalance(weeks, before) ==
    IF Len(weeks) = 0 THEN <<>>
    ELSE <<before + LedgerDelta(Head(weeks))>>
         \o RunningBalance(Tail(weeks), before + LedgerDelta(Head(weeks)))

\* the ledger of the year shown, as the spec defines it
LedgerOfYearShown ==
    LET weeks == yearByWeek
        cumul == cumulativeByWeek
    IN  /\ cumul = RunningBalance(weeks, StoredCarryOver)
        /\ \A i \in 2..Len(weeks) :
               ~HasTimedLog(weeks[i]) => cumul[i] = cumul[i - 1]

\* C12: with every fetch of loadYear succeeding, once the year is loaded
\* cumulativeByWeek[i] is the stored carry-over of the year shown (0 without
\* a record) plus the sum over the weeks j <= i of d[j], d[j] being 0 for a
\* week without entries and totalWorked - totalNorm otherwise; a week
\* without entries repeats the balance of the week before it
C12_CumulativeFromCarryOver == ~loading => LedgerOfYearShown

\* the year view shows what the table holds for the year of yearRef: the
\* fetches of the last loadYear succeeded
ShowsStoredLedger ==
    /\ yearLogs = getWorkLogs(user, formatYmd(startOfYear(yearRef)),
                              formatYmd(endOfYear(yearRef)))
    /\ carryOverMinutes = StoredCarryOver

\* the year view is computed from no log and a carry-over of 0
ShowsEmptyLedger == yearLogs = <<>> /\ carryOverMinutes = 0

\* C25: when loadYear has ended, the year view is computed either from the
\* logs and the carry-over fetched for the year shown or, a fetch having
\* failed, from an empty ledger: no log and a carry-over of 0 minutes,
\* whatever year was loaded before.
C25_FailedLoadShowsEmptyLedger == ~loading => (ShowsStoredLedger \/ ShowsEmptyLedger)

\* ------------------------------------------------------------------------
\* Claims about the week buckets of the year view (checked under SpecYear)
\* ------------------------------------------------------------------------

\* the Monday-to-Friday dates of month m of year y, ascending, as
\* 'yyyy-MM-dd' texts; day 0 of the day count is a Monday, so the days d
\* with d % 7 >= 5 are the Saturdays and Sundays
WeekdaysOfMonth(y, m) ==
    SelectSeq([day \in 1..DaysInMonth(y, m) |-> <<y, m, day>>],
              LAMBDA t : DateOf(t[1], t[2], t[3]) % 7 < 5)

RECURSIVE WeekdaysFromMonth(_, _)
WeekdaysFromMonth(y, m) ==
    IF m > 12 THEN <<>> ELSE WeekdaysOfMonth(y, m) \o WeekdaysFromMonth(y, m + 1)

\* every Monday-to-Friday date from 1 January to 31 December, per year
WeekdaysOfYear == [y \in YearsShown |-> WeekdaysFromMonth(y, 1)]

\* the dates of the buckets, concatenated in bucket order
RECURSIVE BucketDates(_)
BucketDates(weeks) ==
    IF Len(weeks) = 0 THEN <<>>
    ELSE [i \in 1..Len(Head(weeks).days) |-> Head(weeks).days[i].date]
         \o BucketDates(Tail(weeks))

\* C13: the week buckets partition the year's weekdays in chronological
\* order: their days, concatenated in bucket order, are exactly the
\* Monday-to-Friday dates from 1 January to 31 December of the year shown,
\* ascending and each once, and no bucket is empty
C13_BucketsPartitionWeekdays ==
    LET weeks == yearByWeek
    IN  /\ BucketDates(weeks) = WeekdaysOfYear[getYear(yearRef)]
        /\ \A k \in 1..Len(weeks) : Len(weeks[k].days) >= 1

\* the year 2025 is shown: 53 buckets, from Wednesday 1 January to the
\* bucket of Monday 29 to Wednesday 31 December
C13_Witness ==
    /\ ~loading
    /\ getYear(yearRef) = 2025
    /\ LET weeks == yearByWeek
       IN  /\ Len(weeks) = 53
           /\ weeks[1].days[1].date = <<2025, 1, 1>>
           /\ Len(weeks[53].days) = 3
           /\ weeks[53].days[3].date = <<2025, 12, 31>>

\* the day number of a 'yyyy-MM-dd' text
DayOfText(t) == DateOf(t[1], t[2], t[3])

\* the Monday of the week of day d (day 0 is a Monday)
MondayOf(d) == d - (d % 7)

\* the first Thursday of year y
FirstThursday(y) == CHOOSE t \in YearStart(y)..(YearStart(y) + 6) : t % 7 = 3

\* the ISO-8601 week number of day d: its week belongs to the year of its
\* Thursday, and week 1 is the week of that year's first Thursday
IsoWeekNumber(d) ==
    LET thursday == MondayOf(d) + 3
    IN  ((thursday - FirstThursday(getYear(thursday))) \div 7) + 1

\* a week number as the two-digit label 'II'
WeekLabel(n) == <<DigitChars[(n \div 10) + 1], DigitChars[(n % 10) + 1]>>

\* C14: two weekdays of the year are in the same bucket exactly when they
\* belong to the same ISO-8601 week (the days of a bucket share their
\* Monday, and the Mondays of the buckets increase strictly, so no two
\* buckets share one), and each bucket is labelled with the ISO week number
\* of its first day; a 1 January that is a Friday is a bucket of its own
\* labelled with the last week of the previous ISO year, and the last days
\* of December whose Thursday falls in the next year form a bucket labelled 01
C14_BucketsAreISOWeeks ==
    LET weeks == yearByWeek
        y     == getYear(yearRef)
    IN  /\ \A k \in 1..Len(weeks) :
               /\ \A i \in 1..Len(weeks[k].days) :
                      MondayOf(DayOfText(weeks[k].days[i].date))
                          = MondayOf(DayOfText(weeks[k].days[1].date))
               /\ weeks[k].weekNum = WeekLabel(IsoWeekNumber(DayOfText(weeks[k].days[1].date)))
        /\ \A k \in 1..(Len(weeks) - 1) :
               MondayOf(DayOfText(weeks[k].days[1].date))
                   < MondayOf(DayOfText(weeks[k + 1].days[1].date))
        /\ YearStart(y) % 7 = 4 =>
               /\ Len(weeks[1].days) = 1
               /\ weeks[1].days[1].date = <<y, 1, 1>>
               /\ weeks[1].weekNum = WeekLabel(IsoWeekNumber(YearStart(y) - 1))
               /\ weeks[1].weekNum \in {<<"5", "2">>, <<"5", "3">>}
        /\ getYear(MondayOf(YearStart(y + 1) - 1) + 3) = y + 1 =>
               /\ weeks[Len(weeks)].weekNum = <<"0", "1">>
               /\ weeks[Len(weeks)].days[1].date = formatYmd(MondayOf(YearStart(y + 1) - 1))

\* the year 2027 is shown: Friday 1 January 2027 is a bucket of its own,
\* labelled 53 (the last ISO week of 2026)
C14_Witness ==
    /\ ~loading
    /\ getYear(yearRef) = 2027
    /\ LET weeks == yearByWeek
       IN  /\ Len(weeks[1].days) = 1
           /\ weeks[1].days[1].date = <<2027, 1, 1>>
           /\ weeks[1].weekNum = <<"5", "3">>
           /\ weeks[2].weekNum = <<"0", "1">>

\* the norm of the weekdays of the ISO week of Monday mon that fall in year y
NormInYear(mon, y) ==
    Sum([i \in 1..5 |-> IF getYear(mon + (i - 1)) = y
                        THEN (IF i = 5 THEN 240 ELSE 540)
                        ELSE 0])

\* C20 as claimed: every week bucket of the yearly aggregate has the norm
\* of the five weekdays of its ISO week, 2400 minutes, also the ISO weeks
\* that straddle 1 January or 31 December of the year shown
C20_EveryBucketFullNorm ==
    LET weeks == yearByWeek
    IN  \A k \in 1..Len(weeks) : weeks[k].totalNorm = 2400

\* C20 amended: the totalNorm of a week bucket is the sum of the norm over
\* the weekdays of its ISO week that fall in the year shown: 2400 minutes
\* for every bucket but the first and the last, and for these also when
\* the whole ISO week lies in the year
C20_BucketNormOfYearDays ==
    LET weeks == yearByWeek
        y     == getYear(yearRef)
    IN  \A k \in 1..Len(weeks) :
            LET mon == MondayOf(DayOfText(weeks[k].days[1].date))
            IN  /\ weeks[k].totalNorm = NormInYear(mon, y)
                /\ (1 < k /\ k < Len(weeks)) => weeks[k].totalNorm = 2400
                /\ (getYear(mon) = y /\ getYear(mon + 4) = y) => weeks[k].totalNorm = 2400

\* the year 2026 is shown: its first bucket holds Thursday 1 and Friday 2
\* January (780 minutes), its last bucket Monday 28 to Thursday 31 December
\* (2160 minutes), the buckets between them 2400 minutes
C20_Witness ==
    /\ ~loading
    /\ getYear(yearRef) = 2026
    /\ LET weeks == yearByWeek
       IN  /\ weeks[1].totalNorm = 780
           /\ weeks[2].totalNorm = 2400
           /\ weeks[Len(weeks)].totalNorm = 2160


\* ------------------------------------------------------------------------
\* Claims about the table v2_work_logs (checked under SpecStore)
\* ------------------------------------------------------------------------
LogsOf(userId, logDate) == {l \in store : l.user_id = userId /\ l.log_date = logDate}

LastUpsertApplied == call.fn = "upsertWorkLog"

\* C22: after any sequence of upsertWorkLog and deleteWorkLog calls the table
\* holds at most one log per (user, date), and right after an upsert is
\* applied the log of its (user, date) exists and carries exactly the
\* start_time, end_time, break_minutes and notes of the upsert.
C22_OneLogPerUserDate ==
    /\ \A key \in StoreKeys : Cardinality(LogsOf(key[1], key[2])) <= 1
    /\ LastUpsertApplied =>
           /\ LogsOf(call.args[1], call.args[2]) # {}
           /\ \A l \in LogsOf(call.args[1], call.args[2]) : InputOfRow(l) = call.args[3]

\* an upsert has just replaced the log of a (user, date) that held other
\* values, other logs being in the table
C22_Witness ==
    /\ LastUpsertApplied
    /\ call.args[3] = [start_time |-> HHmm(480), end_time |-> null,
                       break_minutes |-> 0, notes |-> <<"x">>]
    /\ call.ret.updated_at = 1
    /\ \E l \in store : l.user_id = call.args[1] /\ l.log_date # call.args[2]
    /\ \E l \in store : l.user_id # call.args[1] /\ l.log_date = call.args[2]

\* a step that applies the same upsert as the call before it
RepeatedUpsert ==
    /\ call.fn = "upsertWorkLog"
    /\ call'.fn = "upsertWorkLog"
    /\ call'.args = call.args
    /\ call' # call \/ store' # store

\* the rows without their updated_at
WithoutUpdatedAt(logs) ==
    {[user_id |-> l.user_id, log_date |-> l.log_date, start_time |-> l.start_time,
      end_time |-> l.end_time, break_minutes |-> l.break_minutes, notes |-> l.notes] :
        l \in logs}

\* C23 as stated: upsertWorkLog is idempotent, applying the same upsert a
\* second time leaves the table exactly as the first application left it.
C23_UpsertIdempotent == [][RepeatedUpsert => store' = store]_vars

\* C23: applying the same upsert a second time leaves every row of the table
\* as the first application left it, but for the updated_at of the upserted
\* row, which is the time of the second application; no row is added.
C23_UpsertIdempotentButUpdatedAt ==
    [][RepeatedUpsert =>
          /\ WithoutUpdatedAt(store') = WithoutUpdatedAt(store)
          /\ Cardinality(store') = Cardinality(store)
          /\ \A l \in store' :
                 l \in store \/ (/\ l.user_id = call.args[1] /\ l.log_date = call.args[2]
                                 /\ l.updated_at = clock)]_vars

\* the same upsert was applied twice, time passing in between
C23_Witness ==
    /\ call.fn = "upsertWorkLog" /\ call.again
    /\ call.ret.updated_at = 1
    /\ call.args[3].break_minutes = 30
    /\ Cardinality(store) = 2


\* ------------------------------------------------------------------------
\* Claims about the week query of the Journal page (checked under
\* SpecJournal)
\* ------------------------------------------------------------------------
\* C28: for every date d shown by the Journal page the range queried by
\* getJournalEntriesForWeek(getISOWeek(d), calendarYear(d)) is the week from
\* Monday to Sunday that contains d, also when the ISO week of d belongs to
\* the previous or the next ISO year.
C28_QueriedRangeIsWeekOfDate ==
    (call.fn = "Journal.loadWeek" /\ call.done) =>
        /\ call.ret.startStr = formatYmd(startOfWeek(call.args[1]))
        /\ call.ret.endStr = formatYmd(endOfWeek(call.args[1]))


\* ------------------------------------------------------------------------
\* Claims about saveSettings (checked under SpecSettings)
\* ------------------------------------------------------------------------
\* the number each text of the fields reads as; NotANumber for a text that
\* does not start with a number
NotANumber == [num |-> 0, den |-> 0]

ReadsAs(text) ==
    CASE text = <<"0">>           -> Whole(0)
      [] text = <<"0", ".", "0">> -> Whole(0)
      [] text = <<"-", "0">>      -> Whole(0)
      [] text = <<"-", "3">>      -> Whole(-3)
      [] text = <<"4">>           -> Whole(4)
      [] text = <<"8">>           -> Whole(8)
      [] text = <<"7", ".", "5">> -> [num |-> 15, den |-> 2]
      [] text = <<".", "5">>      -> [num |-> 1, den |-> 2]
      [] text = <<"2", "5", "d">> -> Whole(25)
      [] OTHER                    -> NotANumber

\* what the claim has stored for a field holding text, dflt being the
\* default of the field
StoredFor(text, dflt) ==
    IF ReadsAs(text) = NotANumber \/ ReadsAs(text) = Whole(0) THEN Whole(dflt)
    ELSE ReadsAs(text)

SettingsSaved == call.fn = "saveSettings" /\ call.done

\* C29: saveSettings never hands upsertLeaveBalance a balance with
\* hours_per_day = 0 or base_days = 0: a field whose text reads as 0 or as
\* no number is stored as its default (25 for base_days, 8 for
\* hours_per_day, 0 for the three others), every other text, a negative
\* number included, as the number it reads as.
C29_ZeroAndNaNDefaulted ==
    SettingsSaved =>
        /\ call.ret.base_days # Whole(0) /\ call.ret.hours_per_day # Whole(0)
        /\ call.ret.base_days.den # 0 /\ call.ret.hours_per_day.den # 0
        /\ call.ret.base_days = StoredFor(call.args[1], 25)
        /\ call.ret.purchased_days = StoredFor(call.args[2], 0)
        /\ call.ret.carry_over_hours = StoredFor(call.args[3], 0)
        /\ call.ret.manual_adjustment_hours = StoredFor(call.args[4], 0)
        /\ call.ret.hours_per_day = StoredFor(call.args[5], 8)

\* settings saved with hoursPerDay "0", baseDays "abc", purchased "-3" and
\* manualAdj "": 8, 25, -3 and 0 are stored
C29_Witness ==
    /\ SettingsSaved
    /\ call.args[5] = <<"0">> /\ call.ret.hours_per_day = Whole(8)
    /\ call.args[1] = <<"a", "b", "c">> /\ call.ret.base_days = Whole(25)
    /\ call.args[2] = <<"-", "3">> /\ call.ret.purchased_days = Whole(-3)
    /\ call.args[4] = EmptyText /\ call.ret.manual_adjustment_hours = Whole(0)


\* ------------------------------------------------------------------------
\* Claims about setActionTags, setMeetingTags and setKnowledgeTags (checked
\* under SpecTags)
\* ------------------------------------------------------------------------
\* C30: when the call has returned normally the linked tags are exactly the
\* given tagIds, and when it has thrown (the insert step failed) the links
\* the item had are removed and not restored: no tag is linked.
C30_ReplaceLinks ==
    /\ call.pc = "returned" => tagLinks = call.args[1]
    /\ call.pc = "threw" => tagLinks = {}

====
